---- MODULE Spec2Model ----
(***************************************************************************)
(* A model of the badminton-court monitor (monitor_appointment.py):        *)
(* the day-scoped notification memory (load_memory, save_memory,           *)
(* filter_messages_by_memory), the merge of hourly slot lines into         *)
(* continuous periods (build_continuous_periods) and the wall-clock        *)
(* policies (get_check_days_count, check_time_availability).               *)
(*                                                                         *)
(* A Python str is a sequence of characters, each a TLA+ string; a         *)
(* non-ASCII character is written as its code point, "U+6708".  A calendar *)
(* day ("%Y-%m-%d") is its day number.                                     *)
(***************************************************************************)
EXTENDS Integers, Sequences, FiniteSets, TLC

VARIABLES
    now,                \* the system clock, in UTC: [day, hour]
    store,              \* the file MEMORY_PATH: [kind, data]
    MEMORY_THRESHOLD,   \* module global, read from the environment at import
    pc,                 \* per cycle: where its filter_messages_by_memory call is
    messages,           \* per cycle: the argument of the call
    today,              \* per cycle: local variable today
    mem,                \* per cycle: local variable mem
    updated,            \* per cycle: local variable updated
    to_notify,          \* per cycle: local variable to_notify
    read_ok,            \* per cycle: the load logged no failure
    write_ok,           \* per cycle: the save logged no failure
    streak,             \* history: the run of same-day successful calls since the start
    daily,              \* history: what the calls of the current local day notified
    LEAST_TIME_LENGTH,  \* module global, read from the environment at import
    slots,              \* the free slots the lines describe: [day, period, venue, hour]
    lines,              \* the argument lines of build_continuous_periods
    include_morning,    \* the argument include_morning
    merged,             \* the list build_continuous_periods returned
    phase,              \* "ready", then "done" once it has returned
    script,             \* the script whose get_check_days_count ran last
    checked_at,         \* its local variable now: the local time it read
    days_count,         \* what it returned, 0 before the first call
    environ,            \* os.environ: the options BEGIN_HOUR and END_HOUR, if set
    local_hour,         \* check_time_availability's local hour, -1 before a call
    time_state,         \* what check_time_availability returned last
    raised,             \* per cycle: the exception its call has raised, if any
    main_pc,            \* where main is: "idle" between two runs of the script
    is_available,       \* main's is_available: "unbound", "True" or "False"
    message,            \* main's message, as the list of its lines
    filtered_lines,     \* main's filtered_lines
    dispatched,         \* the lines main has sent to the channels in this run
    main_error,         \* the exception that has left main, if any
    seen,               \* history: per signature, the calls that had it as candidate
    sent,               \* history: per signature, the calls that notified it
    overlapped,         \* history: a call has begun while another had not saved
    last_writer,        \* history: the cycle whose save_memory ran last
    delivered           \* history: per signature, the lines of it sent to the channels

memVars == <<now, store, MEMORY_THRESHOLD, pc, messages, today, mem, updated,
             to_notify, read_ok, write_ok, streak, daily>>

mergeVars == <<LEAST_TIME_LENGTH, slots, lines, include_morning, merged, phase>>

clockVars == <<script, checked_at, days_count>>

windowVars == <<environ, local_hour, time_state>>

rawVars == <<raised>>

mainVars == <<main_pc, is_available, message, filtered_lines, dispatched,
              main_error>>

raceVars == <<seen, sent, overlapped, last_writer, delivered>>

vars == <<memVars, mergeVars, clockVars, windowVars, rawVars, mainVars,
          raceVars>>

----------------------------------------------------------------------------
(* Bounds of the model *)

MaxDay == 1             \* the clock stops within this UTC day
MaxThreshold == 2       \* MEMORY_THRESHOLD is drawn from 0..MaxThreshold
MaxMsgs == 2            \* the longest candidate list of a call
MaxCount == 4           \* no call is made once a stored count has reached this
MaxLines == 3           \* the longest list of slot lines
MaxLeast == 3           \* LEAST_TIME_LENGTH is drawn from 1..MaxLeast
MaxScan == 2            \* the most free slots a scan of the page finds
ClockStep == 18         \* the hours between two looks at the clock (memory runs)

Cycles == {"c1", "c2"}

----------------------------------------------------------------------------
(* Strings *)

Whitespace == {" ", "\t"}

RECURSIVE LStrip(_)
LStrip(s) ==
    IF s # <<>> /\ Head(s) \in Whitespace THEN LStrip(Tail(s)) ELSE s

RECURSIVE RStrip(_)
RStrip(s) ==
    IF s # <<>> /\ s[Len(s)] \in Whitespace
    THEN RStrip(SubSeq(s, 1, Len(s) - 1))
    ELSE s

\* str.strip()
Strip(s) == RStrip(LStrip(s))

----------------------------------------------------------------------------
(* Slot lines: time_re and normalize_date_key *)

Digits == {"0", "1", "2", "3", "4", "5", "6", "7", "8", "9"}

DigitChars == <<"0", "1", "2", "3", "4", "5", "6", "7", "8", "9">>

\* int() of one digit
DigitVal(c) == (CHOOSE i \in 1..10 : DigitChars[i] = c) - 1

\* [:U+FF1A]: the colon and the full-width colon
Colons == {":", "U+FF1A"}

\* the character at place i, "" past the end
At(s, i) == IF i \in DOMAIN s THEN s[i] ELSE ""

IsDigit(s, i) == At(s, i) \in Digits

NoTime == [ok |-> FALSE, minutes |-> 0, next |-> 0]

\* \d{1,2}[:U+FF1A]\d{2} at place i: the hour takes two digits when a colon
\* follows them, else one; minutes = int(hour) * 60 + int(minute) as lines
\* 295-300 compute it from the matched text
TimeAt(s, i) ==
    LET two == IsDigit(s, i) /\ IsDigit(s, i + 1) /\ At(s, i + 2) \in Colons
        one == IsDigit(s, i) /\ At(s, i + 1) \in Colons
        c   == IF two THEN i + 2 ELSE i + 1
        sh  == IF two THEN DigitVal(s[i]) * 10 + DigitVal(s[i + 1])
               ELSE DigitVal(s[i])
    IN IF (two \/ one) /\ IsDigit(s, c + 1) /\ IsDigit(s, c + 2)
       THEN [ok |-> TRUE,
             minutes |-> sh * 60 + DigitVal(s[c + 1]) * 10 + DigitVal(s[c + 2]),
             next |-> c + 3]
       ELSE NoTime

RECURSIVE SkipSpace(_, _)
\* \s*: the first place at or after i that holds no whitespace
SkipSpace(s, i) ==
    IF At(s, i) \in Whitespace THEN SkipSpace(s, i + 1) ELSE i

\* \((start)\s*-\s*(end)\) at place i
RangeAt(s, i) ==
    IF At(s, i) # "(" THEN NoTime
    ELSE LET st == TimeAt(s, i + 1) IN
         IF ~st.ok THEN NoTime
         ELSE LET d == SkipSpace(s, st.next) IN
              IF At(s, d) # "-" THEN NoTime
              ELSE LET en == TimeAt(s, SkipSpace(s, d + 1)) IN
                   IF en.ok /\ At(s, en.next) = ")" THEN st ELSE NoTime

NoMatch == [ok |-> FALSE, left |-> <<>>, start_min |-> 0]

\* time_re.search(line): left is the text before the first "|" (lazy .*?),
\* the range is the last one after it (greedy .*)
time_re(line) ==
    LET bars == { i \in DOMAIN line : line[i] = "|" } IN
    IF bars = {} THEN NoMatch
    ELSE LET bar  == CHOOSE i \in bars : \A j \in bars : i <= j
             hits == { i \in (bar + 1)..Len(line) : RangeAt(line, i).ok }
         IN IF hits = {} THEN NoMatch
            ELSE LET last == CHOOSE i \in hits : \A j \in hits : j <= i IN
                 [ok |-> TRUE,
                  left |-> SubSeq(line, 1, bar - 1),
                  start_min |-> RangeAt(line, last).minutes]

\* the end of \d{1,2} followed by the character c, at place i; 0 if no match
Num12Then(s, i, c) ==
    IF IsDigit(s, i) /\ IsDigit(s, i + 1) /\ At(s, i + 2) \in c THEN i + 3
    ELSE IF IsDigit(s, i) /\ At(s, i + 1) \in c THEN i + 2
    ELSE 0

\* the end of a final, greedy \d{1,2} at place i; 0 if no match
Num12(s, i) ==
    IF IsDigit(s, i) /\ IsDigit(s, i + 1) THEN i + 2
    ELSE IF IsDigit(s, i) THEN i + 1
    ELSE 0

\* (\d{4}[-/]\d{1,2}[-/]\d{1,2}) at place i: the place after it, 0 if none
YmdAt(s, i) ==
    IF /\ \A k \in 0..3 : IsDigit(s, i + k)
       /\ At(s, i + 4) \in {"-", "/"}
    THEN LET m == Num12Then(s, i + 5, {"-", "/"}) IN
         IF m = 0 THEN 0 ELSE Num12(s, m)
    ELSE 0

\* (\d{1,2}-\d{1,2}) at place i
MdAt(s, i) ==
    LET m == Num12Then(s, i, {"-"}) IN IF m = 0 THEN 0 ELSE Num12(s, m)

\* (\d{1,2}U+6708\d{1,2}U+65E5) at place i
CnAt(s, i) ==
    LET m == Num12Then(s, i, {"U+6708"}) IN
    IF m = 0 THEN 0 ELSE Num12Then(s, m, {"U+65E5"})

\* the three alternatives at place i, in the order of the pattern
DateAt(s, i) ==
    IF YmdAt(s, i) # 0 THEN YmdAt(s, i)
    ELSE IF MdAt(s, i) # 0 THEN MdAt(s, i)
    ELSE CnAt(s, i)

\* left.split()[0] of a stripped, non-empty left
FirstToken(s) ==
    LET ws == { i \in DOMAIN s : s[i] \in Whitespace } IN
    IF ws = {} THEN s
    ELSE SubSeq(s, 1, (CHOOSE i \in ws : \A j \in ws : i <= j) - 1)

\* (mutant) the alternatives are tried one after the other over the whole
\* text: a full date anywhere, else a month-day anywhere, else U+6708 U+65E5
normalize_date_key_priority(left0) ==
    LET left == Strip(left0)
        First(S) == CHOOSE i \in S : \A j \in S : i <= j
        ymd == { i \in DOMAIN left : YmdAt(left, i) # 0 }
        md  == { i \in DOMAIN left : MdAt(left, i) # 0 }
        cn  == { i \in DOMAIN left : CnAt(left, i) # 0 }
    IN IF left = <<>> THEN left
       ELSE IF ymd # {} THEN SubSeq(left, First(ymd), YmdAt(left, First(ymd)) - 1)
       ELSE IF md # {} THEN SubSeq(left, First(md), MdAt(left, First(md)) - 1)
       ELSE IF cn # {} THEN SubSeq(left, First(cn), CnAt(left, First(cn)) - 1)
       ELSE FirstToken(left)

\* normalize_date_key: re.search takes the leftmost place where one of the
\* alternatives matches
normalize_date_key(left0) ==
    LET left == Strip(left0) IN
    IF left = <<>> THEN left
    ELSE LET hits == { i \in DOMAIN left : DateAt(left, i) # 0 } IN
         IF hits # {}
         THEN LET i == CHOOSE i \in hits : \A j \in hits : i <= j IN
              SubSeq(left, i, DateAt(left, i) - 1)
         ELSE FirstToken(left)

\* "U+4E0A U+5348" in line (the morning tag)
Morning == <<"U+4E0A", "U+5348">>

Contains(s, sub) ==
    \E i \in 1..(Len(s) - Len(sub) + 1) : SubSeq(s, i, i + Len(sub) - 1) = sub

----------------------------------------------------------------------------
(* build_continuous_periods *)

RECURSIVE Decimal(_)
\* str(n) of a natural number
Decimal(n) ==
    IF n < 10 THEN <<DigitChars[n + 1]>>
    ELSE Decimal(n \div 10) \o <<DigitChars[(n % 10) + 1]>>

\* f"{n:02d}"
Pad2(n) == IF n < 10 THEN <<"0">> \o Decimal(n) ELSE Decimal(n)

\* "U+8FDE U+7EED U+7A7A U+4F59": the words of a merged line
FreeWords == <<"U+8FDE", "U+7EED", "U+7A7A", "U+4F59">>

\* "U+5C0F U+65F6": hours
HourWords == <<"U+5C0F", "U+65F6">>

\* (mutant) the end of the period is the start of its last hour
FormatPeriod_last_start(date_key, cur_start, cur_prev, cur_len) ==
    date_key \o <<" ", "|", " ">> \o FreeWords \o <<" ">>
        \o Pad2(cur_start \div 60) \o <<":">> \o Pad2(cur_start % 60)
        \o <<"-">>
        \o Pad2(cur_prev \div 60) \o <<":">> \o Pad2(cur_prev % 60)
        \o <<" ", "(">> \o Decimal(cur_len) \o HourWords \o <<")">>

\* the f-string of lines 317-323 and 329-335, with divmod(minutes, 60)
FormatPeriod(date_key, cur_start, cur_prev, cur_len) ==
    LET end_min == cur_prev + 60 IN
    date_key \o <<" ", "|", " ">> \o FreeWords \o <<" ">>
        \o Pad2(cur_start \div 60) \o <<":">> \o Pad2(cur_start % 60)
        \o <<"-">>
        \o Pad2(end_min \div 60) \o <<":">> \o Pad2(end_min % 60)
        \o <<" ", "(">> \o Decimal(cur_len) \o HourWords \o <<")">>

NoPools == [keys |-> <<>>, starts |-> [k \in {} |-> {}]]

\* (mutant) pools[date_key] = {start_min}: the earlier starts are lost
AddStart_overwrite(pools, date_key, start_min) ==
    [keys   |-> IF date_key \in DOMAIN pools.starts THEN pools.keys
                ELSE Append(pools.keys, date_key),
     starts |-> [k \in DOMAIN pools.starts \cup {date_key} |->
                    IF k = date_key THEN {start_min} ELSE pools.starts[k]]]

\* pools.setdefault(date_key, set()).add(start_min): a dict keeps its keys in
\* the order of their first insertion
AddStart(pools, date_key, start_min) ==
    IF date_key \in DOMAIN pools.starts
    THEN [pools EXCEPT !.starts[date_key] = @ \cup {start_min}]
    ELSE [keys   |-> Append(pools.keys, date_key),
          starts |-> [k \in DOMAIN pools.starts \cup {date_key} |->
                         IF k = date_key THEN {start_min}
                         ELSE pools.starts[k]]]

\* (mutant) a line that does not match ends the batch: the starts so far are
\* lost
ParseLine_reset(pools, line, with_morning) ==
    IF line = <<>> THEN pools
    ELSE IF ~with_morning /\ Contains(line, Morning) THEN pools
    ELSE LET m == time_re(line) IN
         IF ~m.ok THEN NoPools
         ELSE AddStart(pools, normalize_date_key(m.left), m.start_min)

\* one turn of the loop of lines 285-301
ParseLine(pools, line, with_morning) ==
    IF line = <<>> THEN pools
    ELSE IF ~with_morning /\ Contains(line, Morning) THEN pools
    ELSE LET m == time_re(line) IN
         IF ~m.ok THEN pools
         ELSE AddStart(pools, normalize_date_key(m.left), m.start_min)

RECURSIVE ParseLines(_, _, _)
ParseLines(pools, ls, with_morning) ==
    IF ls = <<>> THEN pools
    ELSE ParseLines(ParseLine(pools, Head(ls), with_morning),
                    Tail(ls), with_morning)

RECURSIVE Sorted(_)
\* sorted(starts)
Sorted(S) ==
    IF S = {} THEN <<>>
    ELSE LET lo == CHOOSE x \in S : \A y \in S : x <= y IN
         <<lo>> \o Sorted(S \ {lo})

\* (mutant) cur_len > LEAST_TIME_LENGTH for cur_len >= LEAST_TIME_LENGTH
CloseRun_strict(out, date_key, cur_start, cur_prev, cur_len, least) ==
    IF cur_len > least
    THEN Append(out, FormatPeriod(date_key, cur_start, cur_prev, cur_len))
    ELSE out

\* lines 316-323 and 328-335: the run is emitted when it is long enough
CloseRun(out, date_key, cur_start, cur_prev, cur_len, least) ==
    IF cur_len >= least
    THEN Append(out, FormatPeriod(date_key, cur_start, cur_prev, cur_len))
    ELSE out

RECURSIVE ScanRuns(_, _, _, _, _, _, _, _)

\* (mutant) on a gap the run so far is forgotten, not closed
ScanRuns_forget(out, date_key, seq, i, cur_start, cur_prev, cur_len, least) ==
    IF i > Len(seq)
    THEN CloseRun(out, date_key, cur_start, cur_prev, cur_len, least)
    ELSE IF seq[i] = cur_prev + 60
    THEN ScanRuns(out, date_key, seq, i + 1, cur_start, seq[i], cur_len + 1,
                  least)
    ELSE ScanRuns(out, date_key, seq, i + 1, seq[i], seq[i], 1, least)

\* the loop of lines 311-326 from place i of seq, and the final run
ScanRuns(out, date_key, seq, i, cur_start, cur_prev, cur_len, least) ==
    IF i > Len(seq)
    THEN CloseRun(out, date_key, cur_start, cur_prev, cur_len, least)
    ELSE IF seq[i] = cur_prev + 60
    THEN ScanRuns(out, date_key, seq, i + 1, cur_start, seq[i], cur_len + 1,
                  least)
    ELSE ScanRuns(CloseRun(out, date_key, cur_start, cur_prev, cur_len, least),
                  date_key, seq, i + 1, seq[i], seq[i], 1, least)

\* (mutant) the result is returned after the first date
EmitDates_first_only(out, pools, i, least) ==
    IF i > Len(pools.keys) THEN out
    ELSE LET date_key == pools.keys[i]
             seq == Sorted(pools.starts[date_key])
         IN ScanRuns(out, date_key, seq, 2, seq[1], seq[1], 1, least)

RECURSIVE EmitDates(_, _, _, _)
\* the loop of lines 304-335 over the dates, from the i-th key
EmitDates(out, pools, i, least) ==
    IF i > Len(pools.keys) THEN out
    ELSE LET date_key == pools.keys[i]
             seq == Sorted(pools.starts[date_key])
         IN EmitDates(ScanRuns(out, date_key, seq, 2, seq[1], seq[1], 1, least),
                      pools, i + 1, least)

\* build_continuous_periods(lines, include_morning) under LEAST_TIME_LENGTH
build_continuous_periods(ls, with_morning, least) ==
    EmitDates(<<>>, ParseLines(NoPools, ls, with_morning), 1, least)

----------------------------------------------------------------------------
(* The clock *)

UtcOffset == 8

\* datetime.now(pytz.timezone("Asia/Shanghai")): the clock seen in UTC+8
get_beijing_time(t) ==
    [day  |-> t.day + ((t.hour + UtcOffset) \div 24),
     hour |-> (t.hour + UtcOffset) % 24]

DayCountCutoff == 18

\* (mutant) now.hour <= 18 for now.hour < 18
get_check_days_count_le(t) ==
    IF get_beijing_time(t).hour <= DayCountCutoff THEN 3 ELSE 4

\* (mutant) midnight counts as after the cut-off: 4 at local hour 0
get_check_days_count_midnight(t) ==
    IF get_beijing_time(t).hour < DayCountCutoff /\ get_beijing_time(t).hour # 0
    THEN 3 ELSE 4

\* get_check_days_count of docker-image/scripts/monitor_appointment.py
get_check_days_count(t) ==
    IF get_beijing_time(t).hour < DayCountCutoff THEN 3 ELSE 4

\* get_check_days_count of monitor_appointment.py
get_check_days_count_root(t) ==
    IF get_beijing_time(t).hour < DayCountCutoff THEN 3 ELSE 4

\* get_beijing_time().strftime("%Y-%m-%d") (line 215)
get_today(t) == get_beijing_time(t).day

NoEnviron == [k \in {} |-> 0]

\* int(os.environ.get(key, default)) of an option that holds an integer
environ_get(env, key, default) ==
    IF key \in DOMAIN env THEN env[key] ELSE default

DefaultBeginHour == 8
DefaultEndHour == 21

\* (mutant) hour <= end_hour for hour < end_hour
check_time_availability_inclusive(t, env) ==
    LET hour == get_beijing_time(t).hour
        begin_hour == environ_get(env, "BEGIN_HOUR", DefaultBeginHour)
        end_hour == environ_get(env, "END_HOUR", DefaultEndHour)
    IN begin_hour <= hour /\ hour <= end_hour

\* check_time_availability under the environment env
check_time_availability(t, env) ==
    LET hour == get_beijing_time(t).hour
        begin_hour == environ_get(env, "BEGIN_HOUR", DefaultBeginHour)
        end_hour == environ_get(env, "END_HOUR", DefaultEndHour)
    IN begin_hour <= hour /\ hour < end_hour

----------------------------------------------------------------------------
(* The notification memory *)

EmptyMem == [k \in {} |-> [count |-> 0, last_seen |-> 0]]

AbsentFile == [kind |-> "absent", data |-> EmptyMem]
CorruptFile == [kind |-> "corrupt", data |-> EmptyMem]
MapFile(m) == [kind |-> "map", data |-> m]

\* (mutant) a failed read still yields the content of the file
load_memory_keeps(file, ioerr) ==
    IF file.kind # "map" THEN EmptyMem ELSE file.data

\* load_memory: {} when the file is absent, unreadable, not JSON or not a
\* mapping; its content otherwise.  ioerr: open or read raised.
load_memory(file, ioerr) ==
    IF ioerr \/ file.kind # "map" THEN EmptyMem ELSE file.data

\* whether load_memory logged its warning (line 190): an absent file is no
\* failure; a file that does not parse, or is no mapping, reads as {}
load_failed(file, ioerr) ==
    file.kind = "corrupt" \/ (ioerr /\ file.kind # "absent")

\* (mutant) the mapping reaches the file although the write raised
save_memory_anyway(file, m, ioerr) == {MapFile(m)}

\* the files save_memory can leave behind: the mapping when the write
\* succeeds; when it raises, the old file (mkdir or open failed) or a
\* truncated one (open(path, "w") succeeded and json.dump raised)
save_memory(file, m, ioerr) ==
    IF ioerr THEN {file, CorruptFile} ELSE {MapFile(m)}

\* updated[slot_id] = {...}
Put(m, k, v) == [x \in DOMAIN m \cup {k} |-> IF x = k THEN v ELSE m[x]]

\* (mutant) count < threshold for count <= threshold
ClassifyOne_strict(acc, m, day, threshold) ==
    LET slot_id == Strip(m) IN
    IF slot_id = <<>> THEN acc
    ELSE
      LET count == IF slot_id \in DOMAIN acc.updated
                      /\ acc.updated[slot_id].last_seen = day
                   THEN acc.updated[slot_id].count + 1
                   ELSE 1
      IN [updated   |-> Put(acc.updated, slot_id,
                            [count |-> count, last_seen |-> day]),
          to_notify |-> IF count < threshold
                        THEN Append(acc.to_notify, slot_id)
                        ELSE acc.to_notify]

\* (mutant) the count goes on from an entry of another day
ClassifyOne_no_reset(acc, m, day, threshold) ==
    LET slot_id == Strip(m) IN
    IF slot_id = <<>> THEN acc
    ELSE
      LET count == IF slot_id \in DOMAIN acc.updated
                   THEN acc.updated[slot_id].count + 1
                   ELSE 1
      IN [updated   |-> Put(acc.updated, slot_id,
                            [count |-> count, last_seen |-> day]),
          to_notify |-> IF count <= threshold
                        THEN Append(acc.to_notify, slot_id)
                        ELSE acc.to_notify]

\* (mutant) a repeat sighting does not raise the count
ClassifyOne_no_increment(acc, m, day, threshold) ==
    LET slot_id == Strip(m) IN
    IF slot_id = <<>> THEN acc
    ELSE
      LET count == IF slot_id \in DOMAIN acc.updated
                      /\ acc.updated[slot_id].last_seen = day
                   THEN acc.updated[slot_id].count
                   ELSE 1
      IN [updated   |-> Put(acc.updated, slot_id,
                            [count |-> count, last_seen |-> day]),
          to_notify |-> IF count <= threshold
                        THEN Append(acc.to_notify, slot_id)
                        ELSE acc.to_notify]

\* one turn of the loop over messages (lines 220-236)
ClassifyOne(acc, m, day, threshold) ==
    LET slot_id == Strip(m) IN
    IF slot_id = <<>> THEN acc
    ELSE
      LET count == IF slot_id \in DOMAIN acc.updated
                      /\ acc.updated[slot_id].last_seen = day
                   THEN acc.updated[slot_id].count + 1
                   ELSE 1
      IN [updated   |-> Put(acc.updated, slot_id,
                            [count |-> count, last_seen |-> day]),
          to_notify |-> IF count <= threshold
                        THEN Append(acc.to_notify, slot_id)
                        ELSE acc.to_notify]

RECURSIVE ClassifyLoop(_, _, _, _)
ClassifyLoop(acc, msgs, day, threshold) ==
    IF msgs = <<>> THEN acc
    ELSE ClassifyLoop(ClassifyOne(acc, Head(msgs), day, threshold),
                      Tail(msgs), day, threshold)

\* (mutant) nothing is dropped
Prune_keeps_all(m, day) == m

\* the clean-up of lines 238-244: drop the entries not of today
Prune(m, day) ==
    [k \in {x \in DOMAIN m : m[x].last_seen = day} |-> m[k]]

\* filter_messages_by_memory up to its save: (to_notify, updated)
filter_messages_by_memory(m, msgs, day, threshold) ==
    LET r == ClassifyLoop([updated |-> m, to_notify |-> <<>>],
                          msgs, day, threshold)
    IN [updated |-> Prune(r.updated, day), to_notify |-> r.to_notify]

----------------------------------------------------------------------------
(* The steps of main between the scan and the call of the memory *)

RECURSIVE stripped_lines(_)
\* [ln.strip() for ln in str(message).splitlines() if ln.strip()] (line 1029)
stripped_lines(msg) ==
    IF msg = <<>> THEN <<>>
    ELSE (IF Strip(Head(msg)) = <<>> THEN <<>> ELSE <<Strip(Head(msg))>>)
            \o stripped_lines(Tail(msg))

\* (mutant) no line is dropped
morning_filter_off(ls, with_morning) == ls

RECURSIVE morning_filter(_, _)
\* [ln for ln in lines if include_morning or "U+4E0A U+5348" not in ln]
\* (line 1033)
morning_filter(ls, with_morning) ==
    IF ls = <<>> THEN <<>>
    ELSE (IF with_morning \/ ~Contains(Head(ls), Morning)
          THEN <<Head(ls)>> ELSE <<>>)
            \o morning_filter(Tail(ls), with_morning)

\* (mutant) the lines are merged whatever LEAST_TIME_LENGTH is
main_merged_always(ls, with_morning, least) ==
    build_continuous_periods(ls, with_morning, least)

\* main's merged (lines 1036-1041)
main_merged(ls, with_morning, least) ==
    IF least >= 2 THEN build_continuous_periods(ls, with_morning, least)
    ELSE ls

----------------------------------------------------------------------------
(* The notification memory over a file of any JSON content *)

\* a JSON value below the top level, [tag, val]: null, an integer, a string
\* that holds neither a date nor a number ("x"), the string of a day
\* ("%Y-%m-%d", val its day number), a list of val numbers
JNull == [tag |-> "null", val |-> 0]
JInt(n) == [tag |-> "int", val |-> n]
JText == [tag |-> "text", val |-> 0]
JDate(d) == [tag |-> "date", val |-> d]
JList(n) == [tag |-> "list", val |-> n]

\* a value of the top-level mapping, [tag, val, fields]: one of the above, or
\* an object with the fields given
JValue(v) == [tag |-> v.tag, val |-> v.val, fields |-> [k \in {} |-> JNull]]
JDict(f) == [tag |-> "dict", val |-> 0, fields |-> f]

\* {"count": count, "last_seen": today} (line 232)
JEntry(count, day) == JDict([count |-> JInt(count), last_seen |-> JDate(day)])

\* bool(v) of Python
Truthy(v) ==
    CASE v.tag = "null" -> FALSE
      [] v.tag = "int"  -> v.val # 0
      [] v.tag = "list" -> v.val > 0
      [] v.tag = "dict" -> DOMAIN v.fields # {}
      [] OTHER          -> TRUE

\* entry.get(key, default) of a dict
dict_get(v, key, default) ==
    IF key \in DOMAIN v.fields THEN v.fields[key] ELSE default

NoError == "none"

\* what int(x) raises: nothing for an integer, ValueError for a string that
\* holds no number, TypeError for null and for a list
int_error(x) ==
    CASE x.tag = "int"            -> NoError
      [] x.tag \in {"text", "date"} -> "ValueError"
      [] OTHER                     -> "TypeError"

\* one turn of the loop over messages (lines 220-236) on a mapping of any
\* JSON values: entry.get raises AttributeError on a truthy value that is no
\* dict, int() raises on a count that is no number
ClassifyOneJson(acc, m, day, threshold) ==
    LET slot_id == Strip(m) IN
    IF acc.raised # NoError \/ slot_id = <<>> THEN acc
    ELSE
      LET entry == IF slot_id \in DOMAIN acc.updated THEN acc.updated[slot_id]
                   ELSE JValue(JNull)
      IN IF ~Truthy(entry) THEN
              [acc EXCEPT !.updated = Put(@, slot_id, JEntry(1, day)),
                          !.to_notify = IF 1 <= threshold
                                        THEN Append(@, slot_id) ELSE @]
         ELSE IF entry.tag # "dict" THEN
              [acc EXCEPT !.raised = "AttributeError"]
         ELSE IF dict_get(entry, "last_seen", JNull) # JDate(day) THEN
              [acc EXCEPT !.updated = Put(@, slot_id, JEntry(1, day)),
                          !.to_notify = IF 1 <= threshold
                                        THEN Append(@, slot_id) ELSE @]
         ELSE LET c == dict_get(entry, "count", JInt(0)) IN
              IF int_error(c) # NoError THEN
                  [acc EXCEPT !.raised = int_error(c)]
              ELSE
                  [acc EXCEPT !.updated = Put(@, slot_id, JEntry(c.val + 1, day)),
                              !.to_notify = IF c.val + 1 <= threshold
                                            THEN Append(@, slot_id) ELSE @]

RECURSIVE ClassifyLoopJson(_, _, _, _)
ClassifyLoopJson(acc, msgs, day, threshold) ==
    IF msgs = <<>> THEN acc
    ELSE ClassifyLoopJson(ClassifyOneJson(acc, Head(msgs), day, threshold),
                          Tail(msgs), day, threshold)

\* the clean-up of lines 238-244: v.get raises AttributeError on the first
\* value that is no dict
PruneJson(acc, day) ==
    IF acc.raised # NoError THEN acc
    ELSE IF \E k \in DOMAIN acc.updated : acc.updated[k].tag # "dict"
    THEN [acc EXCEPT !.raised = "AttributeError"]
    ELSE [acc EXCEPT !.updated =
              [k \in { x \in DOMAIN @ :
                         dict_get(@[x], "last_seen", JNull) = JDate(day) } |-> @[k]]]

\* filter_messages_by_memory up to its save, on a mapping of any JSON values:
\* [raised, to_notify, updated]
filter_messages_by_memory_json(m, msgs, day, threshold) ==
    PruneJson(ClassifyLoopJson([raised |-> NoError, updated |-> m,
                                to_notify |-> <<>>],
                               msgs, day, threshold),
              day)

----------------------------------------------------------------------------
(* History of the calls, kept for the properties only *)

MsgPool == { <<"A">>, <<"A", " ">>, <<" ", "B">>, <<" ">> }

Sigs == { Strip(m) : m \in MsgPool } \ { <<>> }

SeqsUpTo(S, n) == UNION { [1..k -> S] : k \in 0..n }

MapSeq(f(_), s) == [i \in DOMAIN s |-> f(s[i])]

\* the number of places of seq that hold x
Occurrences(x, seq) == Cardinality({ i \in DOMAIN seq : seq[i] = x })

\* the signatures of a candidate list, blank ones included as <<>>
SlotIds(msgs) == MapSeq(Strip, msgs)

FreshDaily(d) ==
    [day |-> d, clean |-> TRUE, sent |-> [s \in Sigs |-> 0],
     excl |-> {}, again |-> {}]

\* the day's record after a call of day d returned notify for the candidates
\* ids; a day with a failed read or write is not followed further
NextDaily(h, d, ids, notify, ok) ==
    LET b == IF h.day = d THEN h ELSE FreshDaily(d) IN
    IF ~(b.clean /\ ok) THEN [FreshDaily(d) EXCEPT !.clean = FALSE]
    ELSE
    [day   |-> d,
     clean |-> TRUE,
     sent  |-> [s \in Sigs |-> b.sent[s] + Occurrences(s, notify)],
     excl  |-> b.excl \cup { s \in Sigs :
                   Occurrences(s, ids) > Occurrences(s, notify) },
     again |-> b.again \cup { s \in b.excl : Occurrences(s, notify) > 0 }]

NoStreak == [ok |-> FALSE, n |-> 0, day |-> 0, once |-> {}]

\* the run of calls since the start: all on one local day, all read and
\* written without failure; once: the signatures each call had exactly once
NextStreak(h, d, ids, ok) ==
    LET once == { s \in h.once : Occurrences(s, ids) = 1 } IN
    IF h.ok /\ ok /\ (h.n = 0 \/ h.day = d) /\ once # {}
    THEN [ok |-> TRUE, n |-> h.n + 1, day |-> d, once |-> once]
    ELSE NoStreak

----------------------------------------------------------------------------
(* The calls of filter_messages_by_memory *)

\* no call of build_continuous_periods is under way
MergeIdle ==
    /\ LEAST_TIME_LENGTH = 1
    /\ slots = <<>>
    /\ lines = <<>>
    /\ include_morning = TRUE
    /\ merged = <<>>
    /\ phase = "ready"

\* get_check_days_count has not run
ClockIdle ==
    /\ script = "none"
    /\ checked_at = [day |-> 0, hour |-> 0]
    /\ days_count = 0

\* main is not running
MainIdle ==
    /\ main_pc = "idle"
    /\ is_available = "unbound"
    /\ message = <<>>
    /\ filtered_lines = <<>>
    /\ dispatched = <<>>
    /\ main_error = NoError

\* no call has been counted
RaceIdle ==
    /\ seen = [s \in Sigs |-> 0]
    /\ sent = [s \in Sigs |-> 0]
    /\ overlapped = FALSE
    /\ last_writer = "none"
    /\ delivered = [s \in Sigs |-> 0]

\* check_time_availability has not run; no option is set
WindowIdle ==
    /\ environ = NoEnviron
    /\ local_hour = -1
    /\ time_state = FALSE

\* no call of filter_messages_by_memory has been made
CallsIdle ==
    /\ raised = [p \in Cycles |-> NoError]
    /\ pc = [p \in Cycles |-> "idle"]
    /\ messages = [p \in Cycles |-> <<>>]
    /\ today = [p \in Cycles |-> 0]
    /\ mem = [p \in Cycles |-> EmptyMem]
    /\ updated = [p \in Cycles |-> EmptyMem]
    /\ to_notify = [p \in Cycles |-> <<>>]
    /\ read_ok = [p \in Cycles |-> TRUE]
    /\ write_ok = [p \in Cycles |-> TRUE]
    /\ streak = [ok |-> TRUE, n |-> 0, day |-> 0, once |-> Sigs]
    /\ daily = FreshDaily(0)

\* the start of the process: no memory file, no call made
MemIdle == store = AbsentFile /\ CallsIdle

InitMem ==
    /\ now = [day |-> 1, hour |-> 4]
    /\ MemIdle
    /\ MEMORY_THRESHOLD \in 0..MaxThreshold
    /\ MergeIdle
    /\ ClockIdle
    /\ MainIdle
    /\ RaceIdle
    /\ WindowIdle

\* no call is made once a count of the file has reached MaxCount
CountsBelowCap ==
    \A k \in DOMAIN store.data : store.data[k].count < MaxCount

\* filter_messages_by_memory(msgs), run to its return with no other cycle in
\* between.  rerr, werr: the read, the write of the file raises.
Call(p, msgs, rerr, werr) ==
    /\ pc[p] = "idle"
    /\ CountsBelowCap
    /\ \E d \in {get_today(now)}, m \in {load_memory(store, rerr)},
          rok \in {~load_failed(store, rerr)} :
       \E r \in {filter_messages_by_memory(m, msgs, d, MEMORY_THRESHOLD)},
          ids \in {SlotIds(msgs)} :
          /\ today' = [today EXCEPT ![p] = d]
          /\ mem' = [mem EXCEPT ![p] = m]
          /\ updated' = [updated EXCEPT ![p] = r.updated]
          /\ to_notify' = [to_notify EXCEPT ![p] = r.to_notify]
          /\ read_ok' = [read_ok EXCEPT ![p] = rok]
          /\ store' \in save_memory(store, r.updated, werr)
          /\ streak' = NextStreak(streak, d, ids, rok /\ ~werr)
          /\ daily' = NextDaily(daily, d, ids, r.to_notify, rok /\ ~werr)
    /\ write_ok' = [write_ok EXCEPT ![p] = ~werr]
    /\ messages' = [messages EXCEPT ![p] = msgs]
    /\ pc' = [pc EXCEPT ![p] = "done"]
    /\ UNCHANGED <<now, MEMORY_THRESHOLD>>
    /\ UNCHANGED <<mergeVars, clockVars, windowVars, rawVars, raceVars>>

\* time passes
Tick(h) ==
    /\ now.day + ((now.hour + h) \div 24) <= MaxDay
    /\ now' = [day  |-> now.day + ((now.hour + h) \div 24),
               hour |-> (now.hour + h) % 24]
    /\ UNCHANGED <<store, MEMORY_THRESHOLD, pc, messages, today, mem, updated,
                   to_notify, read_ok, write_ok, streak, daily>>
    /\ UNCHANGED <<mergeVars, clockVars, windowVars, rawVars, mainVars, raceVars>>

\* the caller has taken the result: the locals of the call are gone
Return(p) ==
    /\ pc[p] = "done"
    /\ pc' = [pc EXCEPT ![p] = "idle"]
    /\ messages' = [messages EXCEPT ![p] = <<>>]
    /\ today' = [today EXCEPT ![p] = 0]
    /\ mem' = [mem EXCEPT ![p] = EmptyMem]
    /\ updated' = [updated EXCEPT ![p] = EmptyMem]
    /\ to_notify' = [to_notify EXCEPT ![p] = <<>>]
    /\ read_ok' = [read_ok EXCEPT ![p] = TRUE]
    /\ write_ok' = [write_ok EXCEPT ![p] = TRUE]
    /\ UNCHANGED <<now, store, MEMORY_THRESHOLD, streak, daily>>
    /\ UNCHANGED <<mergeVars, clockVars, windowVars, rawVars, raceVars>>

AllIdle == \A q \in Cycles : pc[q] = "idle"

\* one cycle at a time, as the scheduler of the script runs it
CallAlone ==
    /\ AllIdle
    /\ UNCHANGED mainVars
    /\ \E msgs \in SeqsUpTo(MsgPool, MaxMsgs), rerr \in BOOLEAN, werr \in BOOLEAN :
          Call("c1", msgs, rerr, werr)

ReturnStep == UNCHANGED mainVars /\ \E p \in Cycles : Return(p)

\* the clock is looked at between the calls
TickMem == AllIdle /\ Tick(ClockStep)

NextMem == CallAlone \/ ReturnStep \/ TickMem

SpecMem == InitMem /\ [][NextMem]_vars

----------------------------------------------------------------------------
(* The calls of build_continuous_periods *)

DefaultThreshold == 2

Day1202 == <<"1", "2", "-", "0", "2">>
Day1203 == <<"1", "2", "-", "0", "3">>

\* the text of a day tab: "12-02 U+5468 U+4E8C" (the date and the weekday)
DayInfo(day) ==
    day \o <<" ", "U+5468">>
        \o (IF day = Day1202 THEN <<"U+4E8C">> ELSE <<"U+4E09">>)

Afternoon == <<"U+4E0B", "U+5348">>

\* the line of a free slot: f"{day_info} {period} | {field_name}
\* ({begin_time}-{end_time})" as the scan writes it (line 432), or without
\* the period, as the docstring of build_continuous_periods has it
SlotLine(sl) ==
    DayInfo(sl.day)
        \o (IF sl.period = <<>> THEN <<>> ELSE <<" ">> \o sl.period)
        \o <<" ", "|", " ", sl.venue, " ", "(">>
        \o Pad2(sl.hour) \o <<":", "0", "0", "-">>
        \o Pad2(sl.hour + 1) \o <<":", "0", "0", ")">>

Slot(day, period, venue, hour) ==
    [day |-> day, period |-> period, venue |-> venue, hour |-> hour]

\* the free slots a list of lines is drawn from
SlotPool ==
    { Slot(Day1202, <<>>, "A", 8),
      Slot(Day1202, <<>>, "B", 9),
      Slot(Day1202, <<>>, "C", 11),
      Slot(Day1202, <<>>, "B", 8),
      Slot(Day1202, Morning, "A", 10),
      Slot(Day1203, Afternoon, "A", 9) }

InitMerge ==
    /\ now = [day |-> 1, hour |-> 4]
    /\ MemIdle
    /\ ClockIdle
    /\ MainIdle
    /\ RaceIdle
    /\ WindowIdle
    /\ MEMORY_THRESHOLD = DefaultThreshold
    /\ LEAST_TIME_LENGTH \in 1..MaxLeast
    /\ slots \in SeqsUpTo(SlotPool, MaxLines)
    /\ lines = MapSeq(SlotLine, slots)
    /\ include_morning \in BOOLEAN
    /\ merged = <<>>
    /\ phase = "ready"

\* build_continuous_periods(lines, include_morning) runs and returns
Merge ==
    /\ phase = "ready"
    /\ merged' = build_continuous_periods(lines, include_morning,
                                          LEAST_TIME_LENGTH)
    /\ phase' = "done"
    /\ UNCHANGED <<LEAST_TIME_LENGTH, slots, lines, include_morning>>
    /\ UNCHANGED <<memVars, clockVars, windowVars, rawVars, mainVars, raceVars>>

NextMerge == Merge

SpecMerge == InitMerge /\ [][NextMerge]_vars

----------------------------------------------------------------------------
(* The calls of build_continuous_periods on lines of any shape *)

\* a line as the scan writes it, or one that is no slot line: without "|",
\* with "(None-None)" for the times the page did not give, or empty
RawSlot(day, period, venue, hour, end, shape) ==
    [day |-> day, period |-> period, venue |-> venue, hour |-> hour,
     end |-> end, shape |-> shape]

\* f"{begin_time}-{end_time}" of two full hours
RangeText(sl) ==
    Pad2(sl.hour) \o <<":", "0", "0", "-">> \o Pad2(sl.end) \o <<":", "0", "0">>

NoneRange == <<"N", "o", "n", "e", "-", "N", "o", "n", "e">>

\* f"{day_info} {period} | {field_name} ({begin_time}-{end_time})" (line 432)
RawLine(sl) ==
    IF sl.shape = "empty" THEN <<>>
    ELSE DayInfo(sl.day) \o <<" ">> \o sl.period
            \o (IF sl.shape = "nobar" THEN <<" ">> ELSE <<" ", "|", " ">>)
            \o sl.venue \o <<" ", "(">>
            \o (IF sl.shape = "norange" THEN NoneRange ELSE RangeText(sl))
            \o <<")">>

\* two slots of the afternoon of 12-02 at two venues, a morning slot of
\* 12-03, and three lines that are no slot lines
RawPool ==
    { RawSlot(Day1202, Afternoon, <<"A">>, 14, 15, "slot"),
      RawSlot(Day1202, Afternoon, <<"B">>, 15, 16, "slot"),
      RawSlot(Day1203, Morning, <<"A">>, 9, 10, "slot"),
      RawSlot(Day1202, Afternoon, <<"A">>, 16, 17, "nobar"),
      RawSlot(Day1202, Afternoon, <<"B">>, 16, 17, "norange"),
      RawSlot(Day1202, Afternoon, <<"A">>, 13, 14, "empty") }

InitParse ==
    /\ now = [day |-> 1, hour |-> 4]
    /\ MemIdle
    /\ ClockIdle
    /\ MainIdle
    /\ RaceIdle
    /\ WindowIdle
    /\ MEMORY_THRESHOLD = DefaultThreshold
    /\ LEAST_TIME_LENGTH \in 1..MaxLeast
    /\ slots \in SeqsUpTo(RawPool, MaxLines)
    /\ lines = MapSeq(RawLine, slots)
    /\ include_morning \in BOOLEAN
    /\ merged = <<>>
    /\ phase = "ready"

SpecParse == InitParse /\ [][NextMerge]_vars

----------------------------------------------------------------------------
(* The calls of build_continuous_periods on labels of several tokens *)

MaxTokens == 3          \* the most tokens of a label

Token(kind, text) == [kind |-> kind, text |-> text]

\* the tokens of a label: "2025-12-02", "2025/1/2", "12-03", "1 U+6708 4
\* U+65E5" and the weekday word "U+5468"
TokenPool ==
    { Token("ymd", <<"2", "0", "2", "5", "-", "1", "2", "-", "0", "2">>),
      Token("ymd", <<"2", "0", "2", "5", "/", "1", "/", "2">>),
      Token("md", <<"1", "2", "-", "0", "3">>),
      Token("cn", <<"1", "U+6708", "4", "U+65E5">>),
      Token("word", <<"U+5468">>) }

Labels == UNION { [1..k -> TokenPool] : k \in 1..MaxTokens }

RECURSIVE JoinTokens(_)
\* " ".join of the texts of the tokens
JoinTokens(toks) ==
    IF Len(toks) = 1 THEN toks[1].text
    ELSE toks[1].text \o <<" ">> \o JoinTokens(Tail(toks))

LabelSlot(label, venue, hour) ==
    [label |-> label, venue |-> venue, hour |-> hour]

\* "<label> | <venue> (HH:00-HH:00)", the shape of line 432 and of the
\* docstring of build_continuous_periods
LabelLine(sl) ==
    JoinTokens(sl.label)
        \o <<" ", "|", " ", sl.venue, " ", "(">>
        \o Pad2(sl.hour) \o <<":", "0", "0", "-">>
        \o Pad2(sl.hour + 1) \o <<":", "0", "0", ")">>

\* two lines of one label: 14:00 at venue A, 15:00 at venue B
InitLabel ==
    /\ now = [day |-> 1, hour |-> 4]
    /\ MemIdle
    /\ ClockIdle
    /\ MainIdle
    /\ RaceIdle
    /\ WindowIdle
    /\ MEMORY_THRESHOLD = DefaultThreshold
    /\ LEAST_TIME_LENGTH = 1
    /\ \E label \in Labels :
          slots = << LabelSlot(label, "A", 14), LabelSlot(label, "B", 15) >>
    /\ lines = MapSeq(LabelLine, slots)
    /\ include_morning = TRUE
    /\ merged = <<>>
    /\ phase = "ready"

SpecLabel == InitLabel /\ [][NextMerge]_vars

----------------------------------------------------------------------------
(* The runs of main *)

\* the free slots of the page: 11:00 of the morning and 12:00, 13:00 of the
\* afternoon of 12-02, at two venues
ScanPool ==
    { RawSlot(Day1202, Morning, <<"A">>, 11, 12, "slot"),
      RawSlot(Day1202, Afternoon, <<"B">>, 12, 13, "slot"),
      RawSlot(Day1202, Afternoon, <<"A">>, 13, 14, "slot") }

\* what a scan can find: each free slot of the page once
Scans ==
    { f \in SeqsUpTo(ScanPool, MaxScan) :
          \A i, j \in DOMAIN f : f[i] = f[j] => i = j }

\* the options of the operating window: none, an END_HOUR of noon, or a
\* BEGIN_HOUR of 6
MainEnvirons ==
    { NoEnviron, [k \in {"END_HOUR"} |-> 12], [k \in {"BEGIN_HOUR"} |-> 6] }

InitMain ==
    /\ now = [day |-> 1, hour |-> 4]
    /\ MemIdle
    /\ MEMORY_THRESHOLD = DefaultThreshold
    /\ LEAST_TIME_LENGTH \in 1..MaxLeast
    /\ include_morning \in BOOLEAN
    /\ slots = <<>>
    /\ lines = <<>>
    /\ merged = <<>>
    /\ phase = "ready"
    /\ ClockIdle
    /\ MainIdle
    /\ RaceIdle
    /\ environ \in MainEnvirons
    /\ local_hour = -1
    /\ time_state = FALSE

\* (mutant) the scan is run whatever check_time_availability returned
MainStart_no_gate ==
    /\ main_pc = "idle"
    /\ local_hour' = get_beijing_time(now).hour
    /\ time_state' = check_time_availability(now, environ)
    /\ main_pc' = "scan"
    /\ UNCHANGED <<environ, is_available, message, filtered_lines, dispatched,
                   main_error>>
    /\ UNCHANGED <<memVars, mergeVars, clockVars, rawVars, raceVars>>

\* lines 1005-1008: outside the operating window the run ends at once
MainStart ==
    /\ main_pc = "idle"
    /\ local_hour' = get_beijing_time(now).hour
    /\ time_state' = check_time_availability(now, environ)
    /\ main_pc' = IF check_time_availability(now, environ) THEN "scan" ELSE "end"
    /\ UNCHANGED <<environ, is_available, message, filtered_lines, dispatched,
                   main_error>>
    /\ UNCHANGED <<memVars, mergeVars, clockVars, rawVars, raceVars>>

\* check_availability returns (True, the lines of the free slots) or, with
\* none found or an error caught, (False, a text)
Scan(found) ==
    /\ main_pc = "scan"
    /\ slots' = found
    /\ message' = MapSeq(RawLine, found)
    /\ is_available' = IF found # <<>> THEN "True" ELSE "False"
    /\ main_pc' = IF found # <<>> THEN "prepare" ELSE "end"
    /\ UNCHANGED <<LEAST_TIME_LENGTH, lines, include_morning, merged, phase>>
    /\ UNCHANGED <<filtered_lines, dispatched, main_error>>
    /\ UNCHANGED <<memVars, clockVars, windowVars, rawVars, raceVars>>

ScanStep == \E found \in Scans : Scan(found)

\* check_availability is interrupted (KeyboardInterrupt, line 1021): nothing
\* is assigned to is_available and line 1027 raises UnboundLocalError
ScanInterrupted ==
    /\ main_pc = "scan"
    /\ main_error' = "UnboundLocalError"
    /\ main_pc' = "error"
    /\ UNCHANGED <<is_available, message, filtered_lines, dispatched>>
    /\ UNCHANGED <<memVars, mergeVars, clockVars, windowVars, rawVars, raceVars>>

\* (mutant) filter_messages_by_memory is called with an empty merged too
Prepare_always_classify ==
    /\ main_pc = "prepare"
    /\ \E ls \in {stripped_lines(message)} :
       \E fl \in {morning_filter(ls, include_morning)} :
       \E mg \in {main_merged(fl, include_morning, LEAST_TIME_LENGTH)} :
          /\ lines' = ls
          /\ filtered_lines' = fl
          /\ merged' = mg
          /\ main_pc' = "classify"
    /\ phase' = IF LEAST_TIME_LENGTH >= 2 THEN "done" ELSE phase
    /\ UNCHANGED <<LEAST_TIME_LENGTH, slots, include_morning>>
    /\ UNCHANGED <<is_available, message, dispatched, main_error>>
    /\ UNCHANGED <<memVars, clockVars, windowVars, rawVars, raceVars>>

\* lines 1029-1043: the lines are split, filtered and merged; with nothing
\* left the run ends
Prepare ==
    /\ main_pc = "prepare"
    /\ \E ls \in {stripped_lines(message)} :
       \E fl \in {morning_filter(ls, include_morning)} :
       \E mg \in {main_merged(fl, include_morning, LEAST_TIME_LENGTH)} :
          /\ lines' = ls
          /\ filtered_lines' = fl
          /\ merged' = mg
          /\ main_pc' = IF mg = <<>> THEN "end" ELSE "classify"
    /\ phase' = IF LEAST_TIME_LENGTH >= 2 THEN "done" ELSE phase
    /\ UNCHANGED <<LEAST_TIME_LENGTH, slots, include_morning>>
    /\ UNCHANGED <<is_available, message, dispatched, main_error>>
    /\ UNCHANGED <<memVars, clockVars, windowVars, rawVars, raceVars>>

\* line 1048: filter_messages_by_memory(merged)
Classify ==
    /\ main_pc = "classify"
    /\ \E rerr \in BOOLEAN, werr \in BOOLEAN : Call("c1", merged, rerr, werr)
    /\ main_pc' = "classified"
    /\ UNCHANGED <<is_available, message, filtered_lines, dispatched, main_error>>

\* lines 1053-1077: what is left is sent to the channels
Dispatch ==
    /\ main_pc = "classified"
    /\ dispatched' = to_notify["c1"]
    /\ Return("c1")
    /\ main_pc' = "end"
    /\ UNCHANGED <<is_available, message, filtered_lines, main_error>>

\* the script has ended; it is started again with nothing but the file
NextRun ==
    /\ main_pc \in {"end", "error"}
    /\ main_pc' = "idle"
    /\ is_available' = "unbound"
    /\ message' = <<>>
    /\ filtered_lines' = <<>>
    /\ dispatched' = <<>>
    /\ main_error' = NoError
    /\ slots' = <<>>
    /\ lines' = <<>>
    /\ merged' = <<>>
    /\ phase' = "ready"
    /\ local_hour' = -1
    /\ time_state' = FALSE
    /\ UNCHANGED <<LEAST_TIME_LENGTH, include_morning, environ>>
    /\ UNCHANGED <<memVars, clockVars, rawVars, raceVars>>

\* time passes between two runs
TickMain == main_pc = "idle" /\ Tick(ClockStep)

NextMain ==
    \/ MainStart
    \/ ScanStep
    \/ ScanInterrupted
    \/ Prepare
    \/ Classify
    \/ Dispatch
    \/ NextRun
    \/ TickMain

SpecMain == InitMain /\ [][NextMain]_vars

----------------------------------------------------------------------------
(* Two runs of the script at once: filter_messages_by_memory step by step *)

\* sightings of one signature over the overlapping runs, and the candidates
\* of one run
MaxSightings == 3
MaxRaceMsgs == 1

\* one candidate line for each signature
RacePool == { <<"A">>, <<" ", "B">> }

InitRace ==
    /\ now = [day |-> 1, hour |-> 4]
    /\ MemIdle
    /\ MEMORY_THRESHOLD \in 0..MaxThreshold
    /\ MergeIdle
    /\ ClockIdle
    /\ MainIdle
    /\ RaceIdle
    /\ WindowIdle

\* lines 215-244: the file is read and the candidates are classified against
\* what was read; nothing is written yet
Load(p, msgs) ==
    /\ pc[p] = "idle"
    /\ \A s \in Sigs : seen[s] + Occurrences(s, SlotIds(msgs)) <= MaxSightings
    /\ \E d \in {get_today(now)}, m \in {load_memory(store, FALSE)} :
       \E r \in {filter_messages_by_memory(m, msgs, d, MEMORY_THRESHOLD)} :
          /\ today' = [today EXCEPT ![p] = d]
          /\ mem' = [mem EXCEPT ![p] = m]
          /\ updated' = [updated EXCEPT ![p] = r.updated]
          /\ to_notify' = [to_notify EXCEPT ![p] = r.to_notify]
          /\ sent' = [s \in Sigs |-> sent[s] + Occurrences(s, r.to_notify)]
    /\ seen' = [s \in Sigs |-> seen[s] + Occurrences(s, SlotIds(msgs))]
    /\ overlapped' = (overlapped \/ \E q \in Cycles : pc[q] = "loaded")
    /\ messages' = [messages EXCEPT ![p] = msgs]
    /\ pc' = [pc EXCEPT ![p] = "loaded"]
    /\ UNCHANGED <<now, store, MEMORY_THRESHOLD, read_ok, write_ok, streak,
                   daily, last_writer, delivered>>
    /\ UNCHANGED <<mergeVars, clockVars, windowVars, rawVars, mainVars>>

LoadStep ==
    \E p \in Cycles, msgs \in SeqsUpTo(RacePool, MaxRaceMsgs) : Load(p, msgs)

\* (mutant) a cycle does not write over a file that has changed since it
\* read it
Save_first_wins(p) ==
    /\ pc[p] = "loaded"
    /\ store' = IF load_memory(store, FALSE) = mem[p]
                THEN MapFile(updated[p]) ELSE store
    /\ last_writer' = p
    /\ pc' = [pc EXCEPT ![p] = "done"]
    /\ UNCHANGED <<now, MEMORY_THRESHOLD, messages, today, mem, updated,
                   to_notify, read_ok, write_ok, streak, daily>>
    /\ UNCHANGED <<seen, sent, overlapped, delivered>>
    /\ UNCHANGED <<mergeVars, clockVars, windowVars, rawVars, mainVars>>

\* lines 246-250: save_memory(updated) writes the whole mapping
Save(p) ==
    /\ pc[p] = "loaded"
    /\ store' \in save_memory(store, updated[p], FALSE)
    /\ last_writer' = p
    /\ pc' = [pc EXCEPT ![p] = "done"]
    /\ UNCHANGED <<now, MEMORY_THRESHOLD, messages, today, mem, updated,
                   to_notify, read_ok, write_ok, streak, daily>>
    /\ UNCHANGED <<seen, sent, overlapped, delivered>>
    /\ UNCHANGED <<mergeVars, clockVars, windowVars, rawVars, mainVars>>

SaveStep == \E p \in Cycles : Save(p)

NextRace == LoadStep \/ SaveStep \/ ReturnStep

SpecRace == InitRace /\ [][NextRace]_vars

----------------------------------------------------------------------------
(* A run that is killed inside filter_messages_by_memory, and the run after *)

InitCrash ==
    /\ now = [day |-> 1, hour |-> 4]
    /\ MemIdle
    /\ MEMORY_THRESHOLD \in 0..MaxThreshold
    /\ MergeIdle
    /\ ClockIdle
    /\ MainIdle
    /\ RaceIdle
    /\ WindowIdle

\* a run of the script enters filter_messages_by_memory
LoadFirst ==
    /\ pc["c2"] = "idle"
    /\ \E msgs \in SeqsUpTo(RacePool, MaxRaceMsgs) : Load("c1", msgs)

\* the process ends between line 244 and the end of save_memory: before
\* open(path, "w") of line 199 the file is as it was, after it the file is
\* truncated and holds what json.dump had flushed, which is no JSON document
Crash(p) ==
    /\ pc[p] = "loaded"
    /\ store' \in save_memory(store, updated[p], TRUE)
    /\ pc' = [pc EXCEPT ![p] = "crashed"]
    /\ UNCHANGED <<now, MEMORY_THRESHOLD, messages, today, mem, updated,
                   to_notify, read_ok, write_ok, streak, daily>>
    /\ UNCHANGED <<mergeVars, clockVars, windowVars, rawVars, mainVars, raceVars>>

CrashStep == Crash("c1")

\* the script is started again after the run that was killed
LoadNext ==
    /\ pc["c1"] = "crashed"
    /\ pc["c2"] = "idle"
    /\ \E msgs \in SeqsUpTo(RacePool, MaxRaceMsgs) : Load("c2", msgs)

\* the runs are over: nothing of them is left but the file
Forget ==
    /\ pc["c1"] \in {"done", "crashed"}
    /\ pc["c2"] \in {"idle", "done"}
    /\ pc' = [p \in Cycles |-> "idle"]
    /\ messages' = [p \in Cycles |-> <<>>]
    /\ today' = [p \in Cycles |-> 0]
    /\ mem' = [p \in Cycles |-> EmptyMem]
    /\ updated' = [p \in Cycles |-> EmptyMem]
    /\ to_notify' = [p \in Cycles |-> <<>>]
    /\ UNCHANGED <<now, store, MEMORY_THRESHOLD, read_ok, write_ok, streak, daily>>
    /\ UNCHANGED <<mergeVars, clockVars, windowVars, rawVars, mainVars, raceVars>>

\* time passes between two runs
TickCrash == pc["c1"] \in {"idle", "crashed"} /\ pc["c2"] = "idle" /\ Tick(ClockStep)

NextCrash ==
    \/ LoadFirst
    \/ SaveStep
    \/ CrashStep
    \/ LoadNext
    \/ Forget
    \/ TickCrash

SpecCrash == InitCrash /\ [][NextCrash]_vars

----------------------------------------------------------------------------
(* The end of a run: the lines that are left are sent, or the run is killed *)

InitSend ==
    /\ now = [day |-> 1, hour |-> 4]
    /\ MemIdle
    /\ MEMORY_THRESHOLD \in 0..MaxThreshold
    /\ MergeIdle
    /\ ClockIdle
    /\ MainIdle
    /\ RaceIdle
    /\ WindowIdle

\* the locals of the call of cycle p are gone
Forgotten(p) ==
    /\ pc' = [pc EXCEPT ![p] = "idle"]
    /\ messages' = [messages EXCEPT ![p] = <<>>]
    /\ today' = [today EXCEPT ![p] = 0]
    /\ mem' = [mem EXCEPT ![p] = EmptyMem]
    /\ updated' = [updated EXCEPT ![p] = EmptyMem]
    /\ to_notify' = [to_notify EXCEPT ![p] = <<>>]
    /\ UNCHANGED <<now, store, MEMORY_THRESHOLD, read_ok, write_ok, streak, daily>>
    /\ UNCHANGED <<mergeVars, clockVars, windowVars, rawVars, mainVars>>

\* (mutant) the lines are sent before save_memory has run
Send_before_save(p) ==
    /\ pc[p] \in {"loaded", "done"}
    /\ delivered' = [s \in Sigs |-> delivered[s] + Occurrences(s, to_notify[p])]
    /\ Forgotten(p)
    /\ UNCHANGED <<seen, sent, overlapped, last_writer>>

\* lines 1053-1077: filter_messages_by_memory has returned, the lines of
\* to_notify are sent to the channels
Send(p) ==
    /\ pc[p] = "done"
    /\ delivered' = [s \in Sigs |-> delivered[s] + Occurrences(s, to_notify[p])]
    /\ Forgotten(p)
    /\ UNCHANGED <<seen, sent, overlapped, last_writer>>

SendStep == Send("c1")

\* the process ends after line 250 and before the sends of lines 1056-1077
Killed(p) ==
    /\ pc[p] = "done"
    /\ Forgotten(p)
    /\ UNCHANGED raceVars

KilledStep == Killed("c1")

NextSend == LoadFirst \/ SaveStep \/ SendStep \/ KilledStep

SpecSend == InitSend /\ [][NextSend]_vars

----------------------------------------------------------------------------
(* The runs of a day on a file that cannot be written *)

\* there is no file, or one that holds {}
InitNoWrite ==
    /\ now = [day |-> 1, hour |-> 4]
    /\ store \in {AbsentFile, MapFile(EmptyMem)}
    /\ CallsIdle
    /\ MEMORY_THRESHOLD \in 0..MaxThreshold
    /\ MergeIdle
    /\ ClockIdle
    /\ MainIdle
    /\ RaceIdle
    /\ WindowIdle

\* save_memory(updated) raises inside and logs it (lines 198-202): the file
\* is the old one or, once opened for writing, a truncated one
SaveFails(p) ==
    /\ pc[p] = "loaded"
    /\ store' \in save_memory(store, updated[p], TRUE)
    /\ write_ok' = [write_ok EXCEPT ![p] = FALSE]
    /\ pc' = [pc EXCEPT ![p] = "done"]
    /\ UNCHANGED <<now, MEMORY_THRESHOLD, messages, today, mem, updated,
                   to_notify, read_ok, streak, daily>>
    /\ UNCHANGED <<mergeVars, clockVars, windowVars, rawVars, mainVars, raceVars>>

SaveFailsStep == SaveFails("c1")

NextNoWrite == LoadFirst \/ SaveFailsStep \/ ReturnStep

SpecNoWrite == InitNoWrite /\ [][NextNoWrite]_vars

----------------------------------------------------------------------------
(* The calls of get_check_days_count *)

Scripts == {"docker", "root"}

InitClock ==
    /\ now = [day |-> 1, hour |-> 0]
    /\ MemIdle
    /\ MEMORY_THRESHOLD = DefaultThreshold
    /\ MergeIdle
    /\ ClockIdle
    /\ MainIdle
    /\ RaceIdle
    /\ WindowIdle

\* check_dates_availability of script sc asks for the number of days
CheckDays(sc) ==
    /\ script' = sc
    /\ checked_at' = get_beijing_time(now)
    /\ days_count' = IF sc = "docker" THEN get_check_days_count(now)
                     ELSE get_check_days_count_root(now)
    /\ UNCHANGED <<memVars, mergeVars, windowVars, rawVars, mainVars, raceVars>>

CheckDaysStep == \E sc \in Scripts : CheckDays(sc)

\* an hour passes
TickHour == Tick(1)

NextClock == CheckDaysStep \/ TickHour

SpecClock == InitClock /\ [][NextClock]_vars

----------------------------------------------------------------------------
(* The calls of check_time_availability *)

Hours == 0..23

WindowOptions == {"BEGIN_HOUR", "END_HOUR"}

\* the environments that set none, one or both of the options to an hour
Environs == UNION { [K -> Hours] : K \in SUBSET WindowOptions }

InitWindow ==
    /\ now = [day |-> 1, hour |-> 0]
    /\ MemIdle
    /\ MEMORY_THRESHOLD = DefaultThreshold
    /\ MergeIdle
    /\ ClockIdle
    /\ MainIdle
    /\ RaceIdle
    /\ environ \in Environs
    /\ local_hour = -1
    /\ time_state = FALSE

\* main asks whether the clock is inside the operating window
CheckTime ==
    /\ local_hour' = get_beijing_time(now).hour
    /\ time_state' = check_time_availability(now, environ)
    /\ UNCHANGED <<environ, memVars, mergeVars, clockVars, rawVars, mainVars,
                   raceVars>>

NextWindow == CheckTime \/ TickHour

SpecWindow == InitWindow /\ [][NextWindow]_vars

----------------------------------------------------------------------------
(* The calls of filter_messages_by_memory on a file of any content *)

\* the local day of the calls, and the day before it
CallDay == get_today([day |-> 1, hour |-> 4])
DayBefore == CallDay - 1

\* a file that holds JSON which is no mapping: a list, a number
NotMapFile == [kind |-> "notmap", data |-> EmptyMem]

\* the values a mapping of the file can hold: records of today and of the day
\* before, a list, a number, null, a record whose count is no number, a
\* record without last_seen
JsonValues ==
    { JEntry(1, CallDay),
      JEntry(2, DayBefore),
      JValue(JList(1)),
      JValue(JInt(5)),
      JValue(JNull),
      JDict([count |-> JText, last_seen |-> JDate(CallDay)]),
      JDict([count |-> JInt(1)]) }

JsonFiles ==
    {AbsentFile, CorruptFile, NotMapFile}
        \cup { MapFile(m) : m \in UNION { [K -> JsonValues] : K \in SUBSET Sigs } }

InitCorrupt ==
    /\ now = [day |-> 1, hour |-> 4]
    /\ store \in JsonFiles
    /\ CallsIdle
    /\ MEMORY_THRESHOLD \in 0..MaxThreshold
    /\ MergeIdle
    /\ ClockIdle
    /\ MainIdle
    /\ RaceIdle
    /\ WindowIdle

\* no call is made once a count of the file has reached MaxCount
CountsBelowCapJson ==
    \A k \in DOMAIN store.data :
        LET c == dict_get(store.data[k], "count", JInt(0)) IN
        c.tag = "int" => c.val < MaxCount

\* filter_messages_by_memory(msgs) on the file as it is: it returns, or it
\* raises before its save and leaves the file as it was
CallJson(p, msgs) ==
    /\ pc[p] = "idle"
    /\ CountsBelowCapJson
    /\ \E d \in {get_today(now)}, m \in {load_memory(store, FALSE)} :
       \E r \in {filter_messages_by_memory_json(m, msgs, d, MEMORY_THRESHOLD)} :
          /\ today' = [today EXCEPT ![p] = d]
          /\ mem' = [mem EXCEPT ![p] = m]
          /\ read_ok' = [read_ok EXCEPT ![p] = ~load_failed(store, FALSE)]
          /\ raised' = [raised EXCEPT ![p] = r.raised]
          /\ IF r.raised = NoError
             THEN /\ updated' = [updated EXCEPT ![p] = r.updated]
                  /\ to_notify' = [to_notify EXCEPT ![p] = r.to_notify]
                  /\ store' \in save_memory(store, r.updated, FALSE)
                  /\ pc' = [pc EXCEPT ![p] = "done"]
             ELSE /\ pc' = [pc EXCEPT ![p] = "raised"]
                  /\ UNCHANGED <<updated, to_notify, store>>
    /\ messages' = [messages EXCEPT ![p] = msgs]
    /\ UNCHANGED <<now, MEMORY_THRESHOLD, write_ok, streak, daily>>
    /\ UNCHANGED <<mergeVars, clockVars, windowVars, mainVars, raceVars>>

CallJsonAlone ==
    /\ AllIdle
    /\ \E msgs \in SeqsUpTo(MsgPool, MaxMsgs) : CallJson("c1", msgs)

\* the caller has the result, or has caught the exception (line 1049)
ReturnJson(p) ==
    /\ pc[p] \in {"done", "raised"}
    /\ pc' = [pc EXCEPT ![p] = "idle"]
    /\ raised' = [raised EXCEPT ![p] = NoError]
    /\ messages' = [messages EXCEPT ![p] = <<>>]
    /\ today' = [today EXCEPT ![p] = 0]
    /\ mem' = [mem EXCEPT ![p] = EmptyMem]
    /\ updated' = [updated EXCEPT ![p] = EmptyMem]
    /\ to_notify' = [to_notify EXCEPT ![p] = <<>>]
    /\ read_ok' = [read_ok EXCEPT ![p] = TRUE]
    /\ UNCHANGED <<now, store, MEMORY_THRESHOLD, write_ok, streak, daily>>
    /\ UNCHANGED <<mergeVars, clockVars, windowVars, mainVars, raceVars>>

ReturnJsonStep == \E p \in Cycles : ReturnJson(p)

NextCorrupt == CallJsonAlone \/ ReturnJsonStep

SpecCorrupt == InitCorrupt /\ [][NextCorrupt]_vars

----------------------------------------------------------------------------
(* Properties of the notification memory *)

InSeq(x, seq) == \E i \in DOMAIN seq : seq[i] = x

RECURSIVE Pick(_, _, _)
\* the subsequence of seq at the places i >= from that Keep holds of
Pick(seq, Keep(_), from) ==
    IF from > Len(seq) THEN <<>>
    ELSE IF Keep(from) THEN <<seq[from]>> \o Pick(seq, Keep, from + 1)
    ELSE Pick(seq, Keep, from + 1)

\* what a call with no memory at all notifies: of every signature its first
\* t occurrences, in the order of the list
FirstSeenNotify(ids, t) ==
    LET Keep(i) == /\ ids[i] # <<>>
                   /\ Cardinality({ j \in 1..i : ids[j] = ids[i] }) <= t
    IN Pick(ids, Keep, 1)

NonBlank(ids) == LET Keep(i) == ids[i] # <<>> IN Pick(ids, Keep, 1)

\* C1: from an empty store, with a threshold t >= 1, a signature that is a
\* candidate (once) in each of n consecutive calls of one local day, all
\* read and written without failure, is in toNotify of the k-th call exactly
\* when k <= t.
C1_ThresholdRun ==
    \A p \in Cycles :
        (pc[p] = "done" /\ streak.ok /\ MEMORY_THRESHOLD >= 1) =>
            \A s \in streak.once :
                /\ InSeq(s, to_notify[p]) <=> (streak.n <= MEMORY_THRESHOLD)
                /\ Occurrences(s, to_notify[p]) <= 1

\* the third call of a run with threshold 2 has excluded the signature
C1_Witness ==
    \E p \in Cycles :
        /\ pc[p] = "done" /\ streak.ok /\ MEMORY_THRESHOLD = 2
        /\ streak.n = 3
        /\ \E s \in streak.once : ~InSeq(s, to_notify[p])

\* the candidates of a call whose entry, as read, is of another day
StaleCandidates(p) ==
    { s \in Sigs : /\ Occurrences(s, SlotIds(messages[p])) = 1
                   /\ s \in DOMAIN mem[p]
                   /\ mem[p][s].last_seen # today[p] }

\* the count of s is reset: 1 with today's date, in the returned mapping and,
\* when the write succeeded, in the file
ResetTo1(p, s) ==
    /\ s \in DOMAIN updated[p]
    /\ updated[p][s] = [count |-> 1, last_seen |-> today[p]]
    /\ write_ok[p] =>
          /\ store.kind = "map"
          /\ s \in DOMAIN store.data
          /\ store.data[s] = [count |-> 1, last_seen |-> today[p]]

\* C2 as claimed: a candidate whose stored entry is of day D is, on day D+1,
\* reset to count 1 with last_seen D+1 and included in toNotify, whatever its
\* count was (and whatever the threshold is).
C2_DailyReset_Original ==
    \A p \in Cycles : pc[p] = "done" =>
        \A s \in StaleCandidates(p) :
            ResetTo1(p, s) /\ InSeq(s, to_notify[p])

\* C2, amended: a candidate whose stored entry is of an earlier day is reset
\* to count 1 with today's date whatever its count was, and it is included
\* in toNotify when the threshold is at least 1 (with threshold 0 nothing is
\* ever included).
C2_DailyReset ==
    \A p \in Cycles : pc[p] = "done" =>
        \A s \in StaleCandidates(p) :
            /\ ResetTo1(p, s)
            /\ InSeq(s, to_notify[p]) <=> (MEMORY_THRESHOLD >= 1)

\* an entry of yesterday with a count above the threshold is reset and notified
C2_Witness ==
    \E p \in Cycles :
        /\ pc[p] = "done" /\ MEMORY_THRESHOLD >= 1
        /\ \E s \in StaleCandidates(p) :
              /\ mem[p][s].last_seen = today[p] - 1
              /\ mem[p][s].count > MEMORY_THRESHOLD
              /\ InSeq(s, to_notify[p])
              /\ write_ok[p]

NoStaleEntry(m, d) == \A k \in DOMAIN m : m[k].last_seen = d

\* C3 as claimed: after every call made on day T the file holds no entry
\* whose last_seen differs from T.
C3_Pruning_Original ==
    \A p \in Cycles : pc[p] = "done" => NoStaleEntry(store.data, today[p])

\* C3, amended: the mapping a call of day T returns holds no entry whose
\* last_seen differs from T, and neither does the file once the call has
\* written it; a call whose write fails leaves the file as it was or
\* truncated.
C3_Pruning ==
    \A p \in Cycles : pc[p] = "done" =>
        /\ NoStaleEntry(updated[p], today[p])
        /\ write_ok[p] => /\ store = MapFile(updated[p])
                          /\ NoStaleEntry(store.data, today[p])

\* a call has read an entry of another day that is no candidate, and the file
\* it wrote no longer has it
C3_Witness ==
    \E p \in Cycles :
        /\ pc[p] = "done" /\ write_ok[p]
        /\ \E k \in DOMAIN mem[p] :
              /\ mem[p][k].last_seen # today[p]
              /\ ~InSeq(k, SlotIds(messages[p]))
              /\ k \notin DOMAIN store.data
        /\ store.data # EmptyMem

C5_NotificationCap ==
    daily.clean =>
        /\ \A s \in Sigs : daily.sent[s] <= MEMORY_THRESHOLD
        /\ daily.again = {}

\* a signature has used up a threshold of 2 and is excluded by the call that
\* has just returned, while another signature is still notified
C5_Witness ==
    \E p \in Cycles :
        /\ pc[p] = "done" /\ daily.clean /\ MEMORY_THRESHOLD = 2
        /\ \E s \in daily.excl :
              /\ daily.sent[s] = 2
              /\ InSeq(s, SlotIds(messages[p]))
              /\ ~InSeq(s, to_notify[p])
        /\ to_notify[p] # <<>>

----------------------------------------------------------------------------
(* Properties of build_continuous_periods *)

ToSet(seq) == { seq[i] : i \in DOMAIN seq }

\* the slots whose lines the morning filter of line 288 lets through
KeptSlots == { slots[i] : i \in { j \in DOMAIN slots :
                   include_morning \/ slots[j].period # Morning } }

KeptDays == { sl.day : sl \in KeptSlots }

\* the distinct start hours of a day
HoursOf(day) == { sl.hour : sl \in { x \in KeptSlots : x.day = day } }

Least(S) == CHOOSE x \in S : \A y \in S : x <= y
Greatest(S) == CHOOSE x \in S : \A y \in S : y <= x

\* the maximal runs of consecutive hours of H, as <<first, last>>
MaximalRuns(H) ==
    { r \in H \X H : /\ r[1] <= r[2]
                     /\ \A h \in r[1]..r[2] : h \in H
                     /\ (r[1] - 1) \notin H
                     /\ (r[2] + 1) \notin H }

\* the line of the period of hours a..b of a day
PeriodLine(day, a, b) == FormatPeriod(day, a * 60, b * 60, b - a + 1)

\* the lines of the maximal runs of at least LEAST_TIME_LENGTH hours
ExpectedPeriods ==
    UNION { { PeriodLine(d, r[1], r[2]) :
                r \in { x \in MaximalRuns(HoursOf(d)) :
                          x[2] - x[1] + 1 >= LEAST_TIME_LENGTH } } :
            d \in KeptDays }

\* the lines are of one date and their distinct starts are one run
SingleRun ==
    /\ Cardinality(KeptDays) = 1
    /\ \A d \in KeptDays :
          Greatest(HoursOf(d)) - Least(HoursOf(d)) + 1 = Cardinality(HoursOf(d))

\* C6: lines of one date whose distinct start-minutes are one contiguous run
\* of r hours give, with LEAST_TIME_LENGTH = m, exactly one period, from the
\* first start to the last start + 60 with hour count r, when r >= m, and
\* nothing when r < m.
C6_MergeCorrectness ==
    (phase = "done" /\ SingleRun) =>
        \A d \in KeptDays :
            LET H == HoursOf(d) IN
            merged = IF Cardinality(H) >= LEAST_TIME_LENGTH
                     THEN << FormatPeriod(d, Least(H) * 60, Greatest(H) * 60,
                                          Cardinality(H)) >>
                     ELSE <<>>

\* a run of three hours, given in another order than that of the clock, is
\* one period of three hours under a minimum of two
C6_Witness ==
    /\ phase = "done" /\ SingleRun /\ LEAST_TIME_LENGTH = 2
    /\ HoursOf(Day1202) = {8, 9, 10}
    /\ slots[1].hour = 10
    /\ merged = << PeriodLine(Day1202, 8, 10) >>

Orderings(n) == { f \in [1..n -> 1..n] : \A i, j \in 1..n : f[i] = f[j] => i = j }

\* C7: build_continuous_periods gives the same set of lines for every
\* permutation of its input.
C7_OrderIndependence ==
    phase = "done" =>
        \A f \in Orderings(Len(lines)) :
            ToSet(build_continuous_periods([i \in DOMAIN lines |-> lines[f[i]]],
                                           include_morning, LEAST_TIME_LENGTH))
                = ToSet(merged)

\* lines of two dates: reversed, they give the same periods in another order
C7_Witness ==
    /\ phase = "done" /\ Len(merged) = 2 /\ Len(lines) = 3
    /\ merged[1] # merged[2]
    /\ build_continuous_periods([i \in DOMAIN lines |-> lines[Len(lines) + 1 - i]],
                                include_morning, LEAST_TIME_LENGTH)
          = <<merged[2], merged[1]>>

\* the slots of the pool with the date and the start of a line of the input
Duplicates ==
    { e \in SlotPool : \E i \in DOMAIN slots :
          slots[i].day = e.day /\ slots[i].hour = e.hour }

\* C8: a line added, at either end, with the date and start-minute of a
\* line of the input, of the same venue or another, leaves the emitted
\* periods and their hour counts as they were (and so does any number of
\* them, one after the other), and the hour count of a period is the number
\* of distinct start-minutes of its run.
C8_DedupCollapse ==
    phase = "done" =>
        /\ \A e \in Duplicates :
              /\ build_continuous_periods(Append(lines, SlotLine(e)),
                                          include_morning, LEAST_TIME_LENGTH)
                    = merged
              /\ ToSet(build_continuous_periods(<<SlotLine(e)>> \o lines,
                                                include_morning,
                                                LEAST_TIME_LENGTH))
                    = ToSet(merged)
        /\ ToSet(merged) = ExpectedPeriods
        /\ Cardinality(ToSet(merged)) = Len(merged)

\* 08:00 at two venues and 09:00: one period of two hours
C8_Witness ==
    /\ phase = "done"
    /\ Slot(Day1202, <<>>, "A", 8) \in ToSet(slots)
    /\ Slot(Day1202, <<>>, "B", 8) \in ToSet(slots)
    /\ Slot(Day1202, <<>>, "B", 9) \in ToSet(slots)
    /\ merged = << PeriodLine(Day1202, 8, 9) >>

\* "12-02 U+5468 U+4E8C | A (08:00-09:00)" and the lines of B and C
ExampleLines ==
    << <<"1", "2", "-", "0", "2", " ", "U+5468", "U+4E8C", " ", "|", " ",
         "A", " ", "(", "0", "8", ":", "0", "0", "-", "0", "9", ":", "0", "0",
         ")">>,
       <<"1", "2", "-", "0", "2", " ", "U+5468", "U+4E8C", " ", "|", " ",
         "B", " ", "(", "0", "9", ":", "0", "0", "-", "1", "0", ":", "0", "0",
         ")">>,
       <<"1", "2", "-", "0", "2", " ", "U+5468", "U+4E8C", " ", "|", " ",
         "C", " ", "(", "1", "1", ":", "0", "0", "-", "1", "2", ":", "0", "0",
         ")">> >>

\* "12-02 | U+8FDE U+7EED U+7A7A U+4F59 08:00-10:00 (2 U+5C0F U+65F6)"
ExampleOutput ==
    << <<"1", "2", "-", "0", "2", " ", "|", " ",
         "U+8FDE", "U+7EED", "U+7A7A", "U+4F59", " ",
         "0", "8", ":", "0", "0", "-", "1", "0", ":", "0", "0", " ",
         "(", "2", "U+5C0F", "U+65F6", ")">> >>

\* C9: the three lines of 12-02 with starts 08:00 (A), 09:00 (B) and 11:00
\* (C) give, with a minimum of 2 hours, the one line of 08:00-10:00, 2 hours.
C9_EndToEndExample ==
    (phase = "done" /\ lines = ExampleLines /\ LEAST_TIME_LENGTH = 2) =>
        merged = ExampleOutput

\* the example has been merged
C9_Witness ==
    /\ phase = "done" /\ lines = ExampleLines /\ LEAST_TIME_LENGTH = 2
    /\ merged = ExampleOutput

----------------------------------------------------------------------------
(* Properties of the wall-clock policies *)

\* C10: get_check_days_count, in either script, returns 3 at every local
\* hour 0..17 and 4 at every local hour 18..23, whatever the day.
C10_DaysToScan ==
    script \in Scripts =>
        /\ checked_at.hour \in 0..17 => days_count = 3
        /\ checked_at.hour \in 18..23 => days_count = 4
        /\ checked_at.hour \in 0..23

\* monitor_appointment.py has returned 4 at local hour 18
C10_Witness ==
    script = "root" /\ checked_at.hour = 18 /\ days_count = 4

\* C11 as claimed: get_check_days_count returns 3 at local hour 17, 4 at local
\* hour 18, 4 at local hour 23 and 4 at local hour 0.
C11_BoundaryTable_Original ==
    script = "docker" =>
        /\ checked_at.hour = 17 => days_count = 3
        /\ checked_at.hour = 18 => days_count = 4
        /\ checked_at.hour = 23 => days_count = 4
        /\ checked_at.hour = 0 => days_count = 4

\* C11, amended: get_check_days_count returns 3 at local hour 17, 4 at local
\* hour 18, 4 at local hour 23 and 3 at local hour 0 (midnight is before
\* 18:00 of the day that has begun).
C11_BoundaryTable ==
    script = "docker" =>
        /\ checked_at.hour = 17 => days_count = 3
        /\ checked_at.hour = 18 => days_count = 4
        /\ checked_at.hour = 23 => days_count = 4
        /\ checked_at.hour = 0 => days_count = 3

\* the function has run at local hour 0, an hour after it returned 4 at 23
C11_Witness ==
    /\ script = "docker" /\ checked_at.hour = 0 /\ days_count = 3
    /\ checked_at.day = get_beijing_time([day |-> 1, hour |-> 0]).day + 1

\* the lower and the upper bound in force: the option, or its default
BeginInForce == IF "BEGIN_HOUR" \in DOMAIN environ THEN environ["BEGIN_HOUR"] ELSE 8
EndInForce == IF "END_HOUR" \in DOMAIN environ THEN environ["END_HOUR"] ELSE 21

----------------------------------------------------------------------------
(* Properties of the notification memory on a file of any content *)

\* a {count, last_seen} record: an integer and a date
WellFormed(v) ==
    /\ v.tag = "dict"
    /\ DOMAIN v.fields = {"count", "last_seen"}
    /\ v.fields["count"].tag = "int"
    /\ v.fields["last_seen"].tag = "date"

Malformed(m) == \E k \in DOMAIN m : ~WellFormed(m[k])

\* C13 as claimed: filter_messages_by_memory never raises and returns its
\* result when the file is absent or corrupt; a file that holds no mapping,
\* or a mapping with a value that is no {count, last_seen} record, is
\* treated as an empty store.
C13_CorruptTolerated ==
    \A p \in Cycles : pc[p] # "idle" =>
        /\ raised[p] = NoError
        /\ Malformed(mem[p]) =>
              LET r == filter_messages_by_memory_json(
                           EmptyMem, messages[p], today[p], MEMORY_THRESHOLD)
              IN to_notify[p] = r.to_notify /\ updated[p] = r.updated

\* a call has raised AttributeError on a mapping with a value that is a list
\* or a number, and the file is as it was
C13_Witness ==
    \E p \in Cycles :
        /\ pc[p] = "raised" /\ raised[p] = "AttributeError"
        /\ messages[p] # <<>>
        /\ store = MapFile(mem[p])
        /\ \E k \in DOMAIN mem[p] : mem[p][k].tag \in {"list", "int"}

----------------------------------------------------------------------------
(* Maximal runs *)

\* the periods of day d among the emitted lines, as <<first hour, last hour>>
EmittedRuns(d) ==
    { r \in HoursOf(d) \X HoursOf(d) :
          r[1] <= r[2] /\ InSeq(PeriodLine(d, r[1], r[2]), merged) }

\* the emitted lines of day d
EmittedPlaces(d) ==
    { i \in DOMAIN merged :
          \E a, b \in HoursOf(d) : a <= b /\ merged[i] = PeriodLine(d, a, b) }

\* C19: every emitted period is a maximal run of the distinct starts of its
\* date: the hour before its first start is no start of the date, its end is
\* no start of the date, all its hours are starts of the date (never those
\* of another date), two periods of one date neither overlap nor touch, and
\* a date has as many periods as maximal runs of at least LEAST_TIME_LENGTH
\* hours.
C19_MaximalRuns ==
    phase = "done" =>
        /\ \A i \in DOMAIN merged : \E d \in KeptDays : i \in EmittedPlaces(d)
        /\ \A d \in KeptDays :
              /\ \A r \in EmittedRuns(d) :
                    /\ (r[1] - 1) \notin HoursOf(d)
                    /\ (r[2] + 1) \notin HoursOf(d)
                    /\ \A h \in r[1]..r[2] : h \in HoursOf(d)
                    /\ r[2] - r[1] + 1 >= LEAST_TIME_LENGTH
              /\ \A r, q \in EmittedRuns(d) :
                    r # q => (r[2] + 1 < q[1] \/ q[2] + 1 < r[1])
              /\ Cardinality(EmittedPlaces(d))
                    = Cardinality({ r \in MaximalRuns(HoursOf(d)) :
                                      r[2] - r[1] + 1 >= LEAST_TIME_LENGTH })

\* two runs on 12-02 (08:00 and 11:00) and one on 12-03 at 09:00, which
\* joins neither: three periods of one hour
C19_Witness ==
    /\ phase = "done" /\ LEAST_TIME_LENGTH = 1
    /\ HoursOf(Day1202) = {8, 11}
    /\ HoursOf(Day1203) = {9}
    /\ Len(merged) = 3
    /\ EmittedRuns(Day1202) = { <<8, 8>>, <<11, 11>> }

----------------------------------------------------------------------------
(* Lines that are no slot lines, venues and end times *)

\* the lines of the input that are slot lines
GoodLines == LET Keep(i) == slots[i].shape = "slot" IN Pick(lines, Keep, 1)

\* the slots of the slot lines the morning filter lets through
GoodSlots ==
    { slots[i] : i \in { j \in DOMAIN slots :
          /\ slots[j].shape = "slot"
          /\ include_morning \/ slots[j].period # Morning } }

GoodHours(d) == { sl.hour : sl \in { x \in GoodSlots : x.day = d } }

\* the periods of the slot lines alone
GoodPeriods ==
    UNION { { PeriodLine(d, r[1], r[2]) :
                r \in { x \in MaximalRuns(GoodHours(d)) :
                          x[2] - x[1] + 1 >= LEAST_TIME_LENGTH } } :
            d \in { sl.day : sl \in GoodSlots } }

\* C18: a line without "|", without a parenthesised H:MM-H:MM range, or
\* empty is dropped and the rest of the batch is parsed: the result is that
\* of the same list without those lines, the periods of the slot lines alone.
C18_ParseIsolation ==
    phase = "done" =>
        /\ merged = build_continuous_periods(GoodLines, include_morning,
                                             LEAST_TIME_LENGTH)
        /\ ToSet(merged) = GoodPeriods
        /\ Cardinality(GoodPeriods) = Len(merged)

\* a line without "|" for 16:00 stands between the slot lines of 14:00 and
\* 15:00: the period is 14:00-16:00, not 14:00-17:00
C18_Witness ==
    /\ phase = "done" /\ Len(slots) = 3
    /\ slots[1].shape = "slot" /\ slots[1].hour = 14
    /\ slots[2].shape = "nobar"
    /\ slots[3].shape = "slot" /\ slots[3].hour = 15
    /\ merged = << PeriodLine(Day1202, 14, 15) >>

\* a venue whose name holds the two characters of the morning tag
MorningVenue == Morning \o <<"A">>

PlainVenues == { <<"A">>, <<"B">>, <<"C", " ", "1">> }

\* the list with the venue and the end time of its i-th line replaced
Revenued(i, venue, end) ==
    [lines EXCEPT ![i] = RawLine([slots[i] EXCEPT !.venue = venue, !.end = end])]

\* C16 as claimed: the result of build_continuous_periods is the same when
\* the venue or the end time of a slot line is replaced by another value.
C16_VenueIndependence ==
    phase = "done" =>
        \A i \in DOMAIN slots : slots[i].shape = "slot" =>
            \A venue \in PlainVenues \cup {MorningVenue}, end \in 1..24 :
                build_continuous_periods(Revenued(i, venue, end),
                                         include_morning, LEAST_TIME_LENGTH)
                    = merged

\* C16, for venue names without the morning tag: the result is the same
\* whatever the venue and the end time of a slot line are.
C16_PlainVenues ==
    phase = "done" =>
        \A i \in DOMAIN slots : slots[i].shape = "slot" =>
            \A venue \in PlainVenues, end \in 1..24 :
                build_continuous_periods(Revenued(i, venue, end),
                                         include_morning, LEAST_TIME_LENGTH)
                    = merged

\* 14:00 at A and 15:00 at B are one period of two hours; with the venue of
\* the first line renamed to one that holds the morning tag, and mornings
\* left out, the period is gone
C16_Witness ==
    /\ phase = "done" /\ ~include_morning /\ LEAST_TIME_LENGTH = 2
    /\ Len(slots) = 2
    /\ slots[1].venue = <<"A">> /\ slots[1].hour = 14 /\ slots[1].shape = "slot"
    /\ slots[2].venue = <<"B">> /\ slots[2].hour = 15 /\ slots[2].shape = "slot"
    /\ merged = << PeriodLine(Day1202, 14, 15) >>
    /\ build_continuous_periods(Revenued(1, MorningVenue, 15),
                                include_morning, LEAST_TIME_LENGTH) = <<>>

----------------------------------------------------------------------------
(* Properties of main: the morning filter and the merge or its bypass *)

\* main is past line 1041: filtered_lines and merged are assigned
Prepared == is_available = "True" /\ main_pc \in {"classify", "classified", "end"}

\* the lines of the scan, in its order
ScanLines == MapSeq(RawLine, slots)

\* the lines of the scan that are not of the morning, in its order
AfternoonLines ==
    LET Keep(i) == slots[i].period # Morning IN Pick(ScanLines, Keep, 1)

\* the slots of the scan the configuration keeps
KeptScanSlots ==
    { slots[i] : i \in { j \in DOMAIN slots :
          include_morning \/ slots[j].period # Morning } }

\* the periods of a set of slots: the maximal runs of each day of at least
\* LEAST_TIME_LENGTH hours
PeriodsFrom(S) ==
    UNION { { PeriodLine(d, r[1], r[2]) :
                r \in { x \in MaximalRuns({ sl.hour : sl \in { y \in S : y.day = d } }) :
                          x[2] - x[1] + 1 >= LEAST_TIME_LENGTH } } :
            d \in { sl.day : sl \in S } }

\* C14: with LEAST_TIME_LENGTH < 2 main does not call
\* build_continuous_periods: the lines the morning filter has left go to
\* filter_messages_by_memory unchanged and in their order, each its own
\* signature; with LEAST_TIME_LENGTH >= 2 only the lines of the merged
\* periods do.
C14_AggregationBypass ==
    Prepared =>
        /\ LEAST_TIME_LENGTH < 2 =>
              /\ phase = "ready"
              /\ merged = (IF include_morning THEN ScanLines ELSE AfternoonLines)
        /\ LEAST_TIME_LENGTH >= 2 =>
              /\ phase = "done"
              /\ ToSet(merged) = PeriodsFrom(KeptScanSlots)
        /\ main_pc = "classified" =>
              /\ messages["c1"] = merged
              /\ \A i \in DOMAIN merged :
                    /\ merged[i] \in DOMAIN updated["c1"]
                    /\ updated["c1"][merged[i]].last_seen = today["c1"]

\* with a minimum of one hour the lines of 13:00 and 12:00, which a merge
\* would join, have gone to the memory as they were, in the order of the scan
C14_Witness ==
    /\ main_pc = "classified" /\ LEAST_TIME_LENGTH = 1
    /\ Len(slots) = 2 /\ slots[1].hour = 13 /\ slots[2].hour = 12
    /\ merged = ScanLines
    /\ messages["c1"] = ScanLines
    /\ DOMAIN updated["c1"] = ToSet(ScanLines)

\* the kept slots with no kept slot of their day an hour before or after
IsolatedSlots ==
    { sl \in KeptScanSlots :
          \A x \in KeptScanSlots :
              x.day = sl.day => x.hour \notin {sl.hour - 1, sl.hour + 1} }

\* C15 as claimed: with LEAST_TIME_LENGTH = 1, a date with a single isolated
\* start yields the line of a one-hour period.
C15_SingleHour_Original ==
    (Prepared /\ LEAST_TIME_LENGTH = 1) =>
        \A sl \in IsolatedSlots :
            InSeq(PeriodLine(sl.day, sl.hour, sl.hour), merged)

\* C15, amended: with LEAST_TIME_LENGTH = 1, build_continuous_periods gives
\* the line of a one-hour period for an isolated start; main does not call
\* it below 2, and what the run yields for that start is its slot line.
C15_SingleHour ==
    (Prepared /\ LEAST_TIME_LENGTH = 1) =>
        \A sl \in IsolatedSlots :
            /\ InSeq(PeriodLine(sl.day, sl.hour, sl.hour),
                     build_continuous_periods(filtered_lines, include_morning,
                                              LEAST_TIME_LENGTH))
            /\ ~InSeq(PeriodLine(sl.day, sl.hour, sl.hour), merged)
            /\ InSeq(RawLine(sl), merged)

\* the scan found the slot of 13:00 alone, with a minimum of one hour
C15_Witness ==
    /\ Prepared /\ LEAST_TIME_LENGTH = 1
    /\ Len(slots) = 1 /\ slots[1].hour = 13
    /\ slots[1] \in IsolatedSlots
    /\ merged = << RawLine(slots[1]) >>

\* C17: with include_morning false the lines of the morning are dropped
\* before anything is parsed: the candidates are those of the other lines
\* alone, the raw lines in their order or the periods of their starts; with
\* include_morning true the filter drops no line.
C17_MorningFilter ==
    Prepared =>
        /\ lines = ScanLines
        /\ include_morning => filtered_lines = lines
        /\ ~include_morning =>
              /\ filtered_lines = AfternoonLines
              /\ merged = main_merged(AfternoonLines, include_morning,
                                      LEAST_TIME_LENGTH)
              /\ LEAST_TIME_LENGTH < 2 => merged = AfternoonLines
              /\ LEAST_TIME_LENGTH >= 2 =>
                    ToSet(merged) = PeriodsFrom({ sl \in ToSet(slots) :
                                                    sl.period # Morning })

\* the morning slot of 11:00 and the slot of 12:00 were found; with mornings
\* left out and a minimum of two hours nothing is left, though the two are
\* one period of two hours when mornings are kept
C17_Witness ==
    /\ Prepared /\ ~include_morning /\ LEAST_TIME_LENGTH = 2
    /\ Len(slots) = 2
    /\ slots[1].period = Morning /\ slots[1].hour = 11
    /\ slots[2].hour = 12
    /\ merged = <<>>
    /\ main_pc = "end"
    /\ build_continuous_periods(ScanLines, TRUE, LEAST_TIME_LENGTH)
          = << PeriodLine(Day1202, 11, 12) >>

----------------------------------------------------------------------------
(* Properties of two runs at once *)

NoneLoaded == \A p \in Cycles : pc[p] # "loaded"

\* the count the file holds for a signature, 0 when it has none
StoredCount(s) == IF s \in DOMAIN store.data THEN store.data[s].count ELSE 0

----------------------------------------------------------------------------
(* Properties of a run that is killed before its write is complete *)

\* the file holds what the killed run had read
PreCycleStore(p) ==
    \/ store = MapFile(mem[p])
    \/ store = AbsentFile /\ mem[p] = EmptyMem

\* the candidates of run p that its read had no entry of the day for
FirstSeen(p) ==
    { s \in Sigs : /\ InSeq(s, SlotIds(messages[p]))
                   /\ (s \in DOMAIN mem[p] => mem[p][s].last_seen # today[p]) }

\* the run after the killed one is of the same day and has its candidates
SameRunAgain ==
    /\ pc["c1"] = "crashed"
    /\ pc["c2"] \in {"loaded", "done"}
    /\ today["c2"] = today["c1"]
    /\ messages["c2"] = messages["c1"]

\* C21: a run is killed after its classification and before its write is
\* complete: the file is as it was before the run, nothing of what the run
\* computed is in it, and the next run of the day with the same candidates
\* reads what the killed run read and computes what it computed: a
\* candidate that was first seen is first seen again, count 1, and notified
\* (with a threshold of at least 1).
C21_CrashBeforeWrite ==
    /\ (pc["c1"] = "crashed" /\ pc["c2"] = "idle") => PreCycleStore("c1")
    /\ SameRunAgain =>
          /\ mem["c2"] = mem["c1"]
          /\ updated["c2"] = updated["c1"]
          /\ to_notify["c2"] = to_notify["c1"]
          /\ \A s \in FirstSeen("c1") :
                /\ updated["c2"][s].count = Occurrences(s, SlotIds(messages["c2"]))
                /\ MEMORY_THRESHOLD >= 1 => InSeq(s, to_notify["c2"])

\* the same, for a run killed before open(path, "w") has truncated the file
C21_CrashBeforeOpen ==
    /\ (pc["c1"] = "crashed" /\ pc["c2"] = "idle" /\ store.kind # "corrupt")
          => PreCycleStore("c1")
    /\ (SameRunAgain /\ pc["c2"] = "loaded" /\ store.kind # "corrupt") =>
          /\ mem["c2"] = mem["c1"]
          /\ updated["c2"] = updated["c1"]
          /\ to_notify["c2"] = to_notify["c1"]
    /\ SameRunAgain =>
          \A s \in FirstSeen("c1") :
              /\ updated["c2"][s].count = Occurrences(s, SlotIds(messages["c2"]))
              /\ MEMORY_THRESHOLD >= 1 => InSeq(s, to_notify["c2"])

\* a run of the day had put B in the file with count 1; the next run, with
\* candidate A, was killed while it wrote: the file is truncated, the entry
\* of B is gone
C21_Witness ==
    /\ pc["c1"] = "crashed" /\ pc["c2"] = "idle"
    /\ DOMAIN mem["c1"] = { <<"B">> }
    /\ mem["c1"][<<"B">>].last_seen = today["c1"]
    /\ messages["c1"] = << <<"A">> >>
    /\ store = CorruptFile

----------------------------------------------------------------------------
(* Properties of main: the gate of the operating window *)

\* the local hour is outside [BEGIN_HOUR, END_HOUR)
OutsideWindow ==
    LET h == get_beijing_time(now).hour IN ~(BeginInForce <= h /\ h < EndInForce)

\* main has returned at line 1008
GateClosed == main_pc = "end" /\ ~time_state

\* C22: a run of main that starts at a local hour outside
\* [BEGIN_HOUR, END_HOUR) ends at once: check_availability is not called,
\* nothing is merged or classified, the memory file is as it was, with its
\* counts and its entries of earlier days, and nothing is sent; the next
\* step is the end of the script.
C22_WindowGate ==
    [][ /\ (main_pc = "idle" /\ main_pc' # "idle" /\ OutsideWindow) =>
              /\ main_pc' = "end"
              /\ ~time_state'
              /\ UNCHANGED <<memVars, mergeVars, rawVars>>
              /\ UNCHANGED <<is_available, message, filtered_lines, dispatched,
                             main_error>>
        /\ GateClosed =>
              /\ is_available = "unbound" /\ message = <<>> /\ slots = <<>>
              /\ lines = <<>> /\ filtered_lines = <<>> /\ merged = <<>>
              /\ phase = "ready"
              /\ pc["c1"] = "idle" /\ to_notify["c1"] = <<>>
              /\ dispatched = <<>>
              /\ main_error = NoError
              /\ main_pc' = "idle"
              /\ store' = store
      ]_vars

\* the run of 06:00 of the next day has ended at the gate; the file holds
\* an entry of the day before
C22_Witness ==
    /\ GateClosed
    /\ local_hour = 6
    /\ store.kind = "map"
    /\ \E k \in DOMAIN store.data :
          /\ store.data[k].count >= 1
          /\ store.data[k].last_seen # get_today(now)

----------------------------------------------------------------------------
(* Properties of the date key of a label *)

\* the label of the lines, as its tokens
LabelTokens == slots[1].label

\* the text of the first token of a kind among kinds, <<>> if there is none
FirstOfKind(kinds) ==
    LET hits == { i \in DOMAIN LabelTokens : LabelTokens[i].kind \in kinds } IN
    IF hits = {} THEN <<>>
    ELSE LabelTokens[CHOOSE i \in hits : \A j \in hits : i <= j].text

\* a full date if the label has one, else a month-day, else a U+6708 U+65E5
\* date, else the first token
PriorityKey ==
    IF FirstOfKind({"ymd"}) # <<>> THEN FirstOfKind({"ymd"})
    ELSE IF FirstOfKind({"md"}) # <<>> THEN FirstOfKind({"md"})
    ELSE IF FirstOfKind({"cn"}) # <<>> THEN FirstOfKind({"cn"})
    ELSE LabelTokens[1].text

\* the leftmost date of the label, of whatever pattern, else the first token
LeftmostKey ==
    IF FirstOfKind({"ymd", "md", "cn"}) # <<>>
    THEN FirstOfKind({"ymd", "md", "cn"})
    ELSE LabelTokens[1].text

\* the left group of time_re on line i
LeftOf(i) == time_re(lines[i]).left

\* C23 as claimed: the date key is the match of the pattern of the highest
\* priority the label holds, wherever it is in the label.
C23_DateKeyPriority_Original ==
    phase = "done" =>
        /\ \A i \in DOMAIN lines : normalize_date_key(LeftOf(i)) = PriorityKey
        /\ merged = << PeriodLine(PriorityKey, 14, 15) >>

\* C23, amended: the date key is the leftmost date of the label, a full
\* date (with - or /), a month-day or a U+6708 U+65E5 date, whichever comes
\* first in the label, and the first token when the label holds no date;
\* the lines of one label have one key and are merged under it.
C23_DateKeyPriority ==
    phase = "done" =>
        /\ \A i \in DOMAIN lines : normalize_date_key(LeftOf(i)) = LeftmostKey
        /\ merged = << PeriodLine(LeftmostKey, 14, 15) >>

\* the label "12-03 2025-12-02" has given the key 12-03
C23_Witness ==
    /\ phase = "done"
    /\ Len(LabelTokens) = 2
    /\ LabelTokens[1].kind = "md" /\ LabelTokens[2].kind = "ymd"
    /\ merged = << PeriodLine(Day1203, 14, 15) >>
    /\ PriorityKey # Day1203

----------------------------------------------------------------------------
(* Properties of the order of the write and the sends *)

Min(a, b) == IF a <= b THEN a ELSE b

----------------------------------------------------------------------------
(* Properties of one call with repeated candidates *)

Max(a, b) == IF a >= b THEN a ELSE b

\* the count of the day the call of p has read for s: 0 with no entry or
\* with an entry of another day
PriorCount(p, s) ==
    IF s \in DOMAIN mem[p] /\ mem[p][s].last_seen = today[p]
    THEN mem[p][s].count ELSE 0

\* C25: a signature that is k times among the candidates of one call, its
\* count of the day being c before, has count c + k afterwards, in the
\* mapping the call returns and in the file once it is written, and is
\* max(0, min(k, threshold - c)) times in toNotify; a blank candidate makes
\* no entry and is not notified.
C25_DuplicatesCounted ==
    \A p \in Cycles :
        pc[p] = "done" =>
            /\ \A s \in Sigs :
                  LET k == Occurrences(s, SlotIds(messages[p]))
                      c == PriorCount(p, s)
                  IN /\ k >= 1 =>
                           /\ s \in DOMAIN updated[p]
                           /\ updated[p][s] = [count |-> c + k, last_seen |-> today[p]]
                           /\ write_ok[p] =>
                                 /\ store.kind = "map"
                                 /\ s \in DOMAIN store.data
                                 /\ store.data[s].count = c + k
                     /\ Occurrences(s, to_notify[p])
                           = Max(0, Min(k, MEMORY_THRESHOLD - c))
            /\ <<>> \notin DOMAIN updated[p]
            /\ ~InSeq(<<>>, to_notify[p])
            /\ \A i \in DOMAIN to_notify[p] : to_notify[p][i] \in Sigs

\* A had count 1 of the day; the call has it twice, as "A" and as "A ",
\* under a threshold of 2: the count is 3 and A is notified once
C25_Witness ==
    \E p \in Cycles :
        /\ pc[p] = "done" /\ MEMORY_THRESHOLD = 2
        /\ messages[p] = << <<"A">>, <<"A", " ">> >>
        /\ PriorCount(p, <<"A">>) = 1
        /\ updated[p][<<"A">>].count = 3
        /\ to_notify[p] = << <<"A">> >>

----------------------------------------------------------------------------
(* Properties of main: a run without candidates *)

\* main has ended inside the window with nothing to classify: the scan found
\* nothing, or nothing was left after the filter and the merge
NoCandidates ==
    /\ main_pc = "end" /\ time_state
    /\ is_available = "False" \/ (is_available = "True" /\ merged = <<>>)

\* the file holds an entry that is not of the local day
StaleInStore ==
    \E k \in DOMAIN store.data : store.data[k].last_seen # get_today(now)

\* C26: a run whose scan finds nothing, or whose lines leave no candidate,
\* ends without calling filter_messages_by_memory: the file stays as it is,
\* entries of earlier days included, and nothing is sent; the file changes
\* only in the call of a run that has a candidate.
C26_NoCandidates ==
    [][ /\ (main_pc \in {"scan", "prepare"} /\ main_pc' = "end") =>
              /\ is_available' = "False" \/ merged' = <<>>
              /\ UNCHANGED memVars
              /\ dispatched' = <<>>
        /\ main_pc' = "classify" => (is_available' = "True" /\ merged' # <<>>)
        /\ NoCandidates =>
              /\ pc["c1"] = "idle" /\ to_notify["c1"] = <<>>
              /\ dispatched = <<>>
              /\ store' = store
        /\ store' # store => (main_pc = "classify" /\ merged # <<>>)
      ]_vars

\* a run of the next day has found one hour under a minimum of two: it has
\* ended with no candidate and the entry of the day before is still in the
\* file
C26_Witness ==
    /\ NoCandidates
    /\ is_available = "True" /\ LEAST_TIME_LENGTH >= 2
    /\ Len(slots) = 1
    /\ store.kind = "map"
    /\ StaleInStore

----------------------------------------------------------------------------
(* Properties of the runs on a file that cannot be written *)

\* C27: with every write failing, from no file or an empty one, no count
\* ever reaches the file: every run reads {} and counts each candidate from
\* 1, so with a threshold of at least 1 every signature among the candidates
\* of a run is in its toNotify, run after run, and the notifications of a
\* signature are not bounded by the threshold.
C27_WriteFailureNoSuppression ==
    /\ load_memory(store, FALSE) = EmptyMem
    /\ \A p \in Cycles :
          pc[p] \in {"loaded", "done"} =>
              /\ mem[p] = EmptyMem
              /\ \A s \in Sigs :
                    LET k == Occurrences(s, SlotIds(messages[p])) IN
                    /\ Occurrences(s, to_notify[p]) = Min(k, MEMORY_THRESHOLD)
                    /\ (k >= 1 /\ MEMORY_THRESHOLD >= 1) => InSeq(s, to_notify[p])
    /\ MEMORY_THRESHOLD >= MaxRaceMsgs => sent = seen

\* under a threshold of 1 the third run of the day has A as candidate and
\* notifies it for the third time
C27_Witness ==
    /\ MEMORY_THRESHOLD = 1
    /\ pc["c1"] = "done" /\ ~write_ok["c1"]
    /\ seen[<<"A">>] = 3
    /\ sent[<<"A">>] = 3
    /\ to_notify["c1"] = << <<"A">> >>

----------------------------------------------------------------------------
(* Properties of main: a scan that returns nothing *)

\* main is past its try statement (lines 1017-1025) and check_availability
\* has not returned: nothing was assigned to is_available
ScanGaveNothing ==
    /\ time_state
    /\ main_pc \in {"end", "error"}
    /\ is_available = "unbound"

\* C28: when check_availability is interrupted or raises, main ends the
\* run without merging, classifying or sending, and no exception leaves
\* main.
C28_ScanFailureEndsQuietly ==
    /\ main_error = NoError
    /\ ScanGaveNothing =>
          /\ main_pc = "end"
          /\ phase = "ready" /\ merged = <<>>
          /\ pc["c1"] = "idle"
          /\ dispatched = <<>>

\* the part of C28 that holds: after an interrupted scan nothing is merged,
\* classified or sent
C28_InterruptedSkipsPipeline ==
    ScanGaveNothing =>
        /\ phase = "ready" /\ merged = <<>> /\ filtered_lines = <<>>
        /\ pc["c1"] = "idle" /\ to_notify["c1"] = <<>>
        /\ dispatched = <<>>

\* the scan was interrupted: main has logged it and has then failed at
\* line 1027 with UnboundLocalError
C28_Witness ==
    /\ ScanGaveNothing
    /\ main_pc = "error"
    /\ main_error = "UnboundLocalError"
    /\ merged = <<>> /\ dispatched = <<>>

====
